---------------------------- MODULE Spec2Model ----------------------------
(***************************************************************************)
(* Hybrid storage (SQLite database file + media tree) of pqs-rtn:         *)
(* connection guard, avatar managers, logical and archive backup.         *)
(* Every operator below is translated from src/src-tauri/src/*.rs.        *)
(***************************************************************************)
EXTENDS Integers, Sequences, FiniteSets, TLC

VARIABLES
    dbs,        \* database files by path: [st, tabs]
    media,      \* media tree: relative path -> file content
    clock,      \* Unix time in seconds (SystemTime::now / chrono::Utc::now)
    backups,    \* logical backup documents: file name (timestamp) -> document
    archives,   \* hybrid zip archives: file name (timestamp) -> archive
    sidecars,   \* safety copies written beside a database file: path -> [st, tabs]
    exports,    \* textual exports: file name -> document
    job,        \* an avatar save in flight (step-wise runs only)
    faults,     \* I/O failures injected so far
    hist,       \* landmarks of the run so far (history, read by no operation)
    ret         \* the last completed operation and its result

vars == <<dbs, media, clock, backups, archives, sidecars, exports, job, faults,
          hist, ret>>

-----------------------------------------------------------------------------
(* Bounds of the model *)

MaxClock == 1
MaxUserId == 2
MaxEntityId == 1
MaxFaults == 1
MaxArchives == 1
MaxBackups == 1
LongBlobLen == 76

-----------------------------------------------------------------------------
(* SQL values as rusqlite sees them: a value has exactly one storage class *)

NullV == [t |-> "null"]
IntV(n) == [t |-> "int", i |-> n]
TextV(s) == [t |-> "text", s |-> s]
BlobV(b) == [t |-> "blob", b |-> b]

IsNull(v) == v.t = "null"

-----------------------------------------------------------------------------
(* Database files.  A file is Absent, PresentEmpty (zero bytes) or          *)
(* PresentValid (SQLite has written pages); tabs maps each existing table   *)
(* to its columns and rows.                                                 *)

HybridDb == "pqs-rtn-hybrid-storage/database.db"
TauriDb == "pqs-rtn-tauri/database.db"
DbPaths == {HybridDb, TauriDb}

NoTables == [t \in {} |-> [cols |-> <<>>, rows |-> {}]]
AbsentDb == [st |-> "Absent", tabs |-> NoTables]
EmptyDb == [st |-> "PresentEmpty", tabs |-> NoTables]

UsersCols == <<"id", "username", "role", "avatar_path", "avatar_updated_at",
               "avatar_mime", "avatar_size">>
OfficersCols == <<"id", "thai_name", "order_index", "avatar_path",
                  "avatar_updated_at", "avatar_mime", "avatar_size">>
SequenceCols == <<"name", "seq">>

HasTable(tabs, t) == t \in DOMAIN tabs
RowsOf(tabs, t) == tabs[t].rows
ColSet(tabs, t) == {tabs[t].cols[k] : k \in 1..Len(tabs[t].cols)}

SetMax(S) == CHOOSE m \in S : \A n \in S : n <= m

\* AUTOINCREMENT: the next rowid is one more than the largest ever used,
\* which SQLite keeps in sqlite_sequence.
SeqOf(tabs, t) ==
    IF HasTable(tabs, "sqlite_sequence")
       /\ \E r \in RowsOf(tabs, "sqlite_sequence") : r["name"] = TextV(t)
    THEN (CHOOSE r \in RowsOf(tabs, "sqlite_sequence") : r["name"] = TextV(t))["seq"].i
    ELSE 0

WithSeq(tabs, t, n) ==
    LET old == IF HasTable(tabs, "sqlite_sequence")
               THEN RowsOf(tabs, "sqlite_sequence") ELSE {}
        kept == {r \in old : r["name"] # TextV(t)}
        row == [c \in {"name", "seq"} |->
                   IF c = "name" THEN TextV(t) ELSE IntV(n)]
    IN [x \in DOMAIN tabs \cup {"sqlite_sequence"} |->
           IF x = "sqlite_sequence"
           THEN [cols |-> SequenceCols, rows |-> kept \cup {row}]
           ELSE tabs[x]]

\* CREATE TABLE IF NOT EXISTS t (id INTEGER PRIMARY KEY AUTOINCREMENT, ...)
CreateTableIfNotExists(tabs, t, cols) ==
    IF HasTable(tabs, t) THEN tabs
    ELSE [x \in DOMAIN tabs \cup {t, "sqlite_sequence"} |->
            IF x = t THEN [cols |-> cols, rows |-> {}]
            ELSE IF x \in DOMAIN tabs THEN tabs[x]
            ELSE [cols |-> SequenceCols, rows |-> {}]]

\* INSERT without an id: the row gets the next AUTOINCREMENT id.
InsertAuto(tabs, t, row) ==
    LET id == SetMax({SeqOf(tabs, t)} \cup {r["id"].i : r \in RowsOf(tabs, t)}) + 1
        full == [c \in DOMAIN row \cup {"id"} |->
                    IF c = "id" THEN IntV(id) ELSE row[c]]
        added == [tabs EXCEPT ![t].rows = @ \cup {full}]
    IN WithSeq(added, t, id)

RowById(tabs, t, id) == CHOOSE r \in RowsOf(tabs, t) : r["id"] = IntV(id)
CountById(tabs, t, id) == Cardinality({r \in RowsOf(tabs, t) : r["id"] = IntV(id)})

\* UPDATE t SET <fields of upd> WHERE id = ?
UpdateById(tabs, t, id, upd) ==
    [tabs EXCEPT ![t].rows =
        {IF r["id"] = IntV(id)
         THEN [c \in DOMAIN r |-> IF c \in DOMAIN upd THEN upd[c] ELSE r[c]]
         ELSE r : r \in @}]

-----------------------------------------------------------------------------
(* Connection guard (database.rs) *)

\* Connection::open: SQLite opens the file with the create flag, so an
\* absent file comes into being with zero bytes.
OpenCreating(db) ==
    IF db.st = "Absent" THEN EmptyDb ELSE db

\* get_connection_safe without the size check
OpenGuardedNoSizeCheck(db) ==
    IF db.st = "Absent"
    THEN [ok |-> FALSE, db |-> db, err |-> "NotInitialized"]
    ELSE [ok |-> TRUE, db |-> db, err |-> ""]

\* get_connection_safe that rejects a zero-byte file and leaves it in place
OpenGuardedKeepsEmpty(db) ==
    IF db.st # "PresentValid"
    THEN [ok |-> FALSE, db |-> db, err |-> "NotInitialized"]
    ELSE [ok |-> TRUE, db |-> db, err |-> ""]

\* get_connection_safe: [ok, db, err]
OpenGuarded(db) ==
    IF db.st = "Absent"
    THEN [ok |-> FALSE, db |-> db, err |-> "NotInitialized"]
    ELSE IF db.st = "PresentEmpty"
    THEN [ok |-> FALSE, db |-> AbsentDb, err |-> "NotInitialized"]
    ELSE [ok |-> TRUE, db |-> db, err |-> ""]

\* get_connection_readonly: [ok, db, err]
OpenReadOnly(db) ==
    IF db.st = "Absent"
    THEN [ok |-> FALSE, db |-> db, err |-> "CantOpen"]
    ELSE [ok |-> TRUE, db |-> db, err |-> ""]

\* a write through an open connection leaves a file with content
Written(tabs) == [st |-> "PresentValid", tabs |-> tabs]

AdminRows(tabs) ==
    IF HasTable(tabs, "users")
    THEN {r \in RowsOf(tabs, "users") : r["role"] = TextV("admin")}
    ELSE {}


-----------------------------------------------------------------------------
(* The one-time initializer (database.rs) *)

AdminRow ==
    [c \in {"username", "role", "avatar_path", "avatar_updated_at",
            "avatar_mime", "avatar_size"} |->
        IF c = "username" THEN TextV("admin")
        ELSE IF c = "role" THEN TextV("admin")
        ELSE NullV]

OfficerRow(k) ==
    [c \in {"thai_name", "order_index", "avatar_path", "avatar_updated_at",
            "avatar_mime", "avatar_size"} |->
        IF c = "thai_name" THEN TextV(k)
        ELSE IF c = "order_index" THEN IntV(k)
        ELSE NullV]

\* the three officers of the default roster
DefaultOfficers == 3

RECURSIVE InsertOfficers(_, _)
InsertOfficers(tabs, k) ==
    IF k > DefaultOfficers THEN tabs
    ELSE InsertOfficers(InsertAuto(tabs, "high_ranking_officers", OfficerRow(k)), k + 1)

\* insert_default_high_ranking_officers
InsertDefaultHighRankingOfficers(tabs) ==
    IF RowsOf(tabs, "high_ranking_officers") # {} THEN tabs
    ELSE InsertOfficers(tabs, 1)

\* ALTER TABLE users RENAME TO users_old
RenameUsersOld(tabs) ==
    [x \in (DOMAIN tabs \ {"users"}) \cup {"users_old"} |->
        IF x = "users_old" THEN tabs["users"] ELSE tabs[x]]

\* initialize_database_internal: [ok, db]
InitializeDatabaseInternal(db) ==
    LET c0 == OpenCreating(db)
        t0 == c0.tabs
        migrate == HasTable(t0, "users") /\ "username" \notin ColSet(t0, "users")
    IN IF migrate /\ HasTable(t0, "users_old")
       THEN [ok |-> FALSE, db |-> c0]
       ELSE
       LET t1 == IF migrate THEN RenameUsersOld(t0) ELSE t0
           t2 == CreateTableIfNotExists(t1, "users", UsersCols)
           t3 == CreateTableIfNotExists(t2, "high_ranking_officers", OfficersCols)
           t4 == IF AdminRows(t3) = {} THEN InsertAuto(t3, "users", AdminRow) ELSE t3
           t5 == InsertDefaultHighRankingOfficers(t4)
       IN [ok |-> TRUE, db |-> Written(t5)]

\* check_database_exists_and_valid probing with Connection::open
CheckOpensCreating(db, statOk) ==
    LET c == OpenCreating(db)
    IN [ok |-> TRUE,
        val |-> /\ HasTable(c.tabs, "users")
                /\ HasTable(c.tabs, "high_ranking_officers")
                /\ AdminRows(c.tabs) # {},
        db |-> c]

\* check_database_exists_and_valid: [ok, val, db]; statOk is whether
\* std::fs::metadata of the existing file succeeds.
CheckDatabaseExistsAndValid(db, statOk) ==
    IF db.st = "Absent" THEN [ok |-> TRUE, val |-> FALSE, db |-> db]
    ELSE IF ~statOk THEN [ok |-> FALSE, val |-> FALSE, db |-> db]
    ELSE IF db.st = "PresentEmpty" THEN [ok |-> TRUE, val |-> FALSE, db |-> AbsentDb]
    ELSE LET o == OpenReadOnly(db)
         IN IF o.ok
            THEN [ok |-> TRUE,
                  val |-> /\ HasTable(db.tabs, "users")
                          /\ HasTable(db.tabs, "high_ranking_officers")
                          /\ AdminRows(db.tabs) # {},
                  db |-> db]
            ELSE [ok |-> TRUE, val |-> FALSE, db |-> db]

-----------------------------------------------------------------------------
(* User operations (database.rs, main.rs): [ok, db, err, val] *)

UserNames == {"admin", "u1"}
Roles == {"admin", "visitor"}

NewUserRow(name, role) ==
    [c \in {"username", "role", "avatar_path", "avatar_updated_at",
            "avatar_mime", "avatar_size"} |->
        IF c = "username" THEN TextV(name)
        ELSE IF c = "role" THEN TextV(role)
        ELSE NullV]

NameTaken(tabs, name, exceptId) ==
    \E r \in RowsOf(tabs, "users") :
        r["username"] = TextV(name) /\ r["id"] # IntV(exceptId)

\* create_user
CreateUser(db, name, role) ==
    LET g == OpenGuarded(db)
    IN IF ~g.ok THEN [ok |-> FALSE, db |-> g.db, err |-> g.err, val |-> 0]
       ELSE IF ~HasTable(db.tabs, "users") \/ NameTaken(db.tabs, name, 0)
       THEN [ok |-> FALSE, db |-> db, err |-> "Sql", val |-> 0]
       ELSE LET t == InsertAuto(db.tabs, "users", NewUserRow(name, role))
            IN [ok |-> TRUE, db |-> Written(t), err |-> "", val |-> SeqOf(t, "users")]

\* update_user
UpdateUser(db, id, name, role) ==
    LET g == OpenGuarded(db)
    IN IF ~g.ok THEN [ok |-> FALSE, db |-> g.db, err |-> g.err, val |-> 0]
       ELSE IF ~HasTable(db.tabs, "users")
       THEN [ok |-> FALSE, db |-> db, err |-> "Sql", val |-> 0]
       ELSE IF CountById(db.tabs, "users", id) = 0
       THEN [ok |-> FALSE, db |-> db, err |-> "NotFound", val |-> 0]
       ELSE IF NameTaken(db.tabs, name, id)
       THEN [ok |-> FALSE, db |-> db, err |-> "Sql", val |-> 0]
       ELSE LET upd == [c \in {"username", "role"} |->
                           IF c = "username" THEN TextV(name) ELSE TextV(role)]
            IN [ok |-> TRUE, db |-> Written(UpdateById(db.tabs, "users", id, upd)),
                err |-> "", val |-> id]

\* delete_user
DeleteUser(db, id) ==
    LET g == OpenGuarded(db)
    IN IF ~g.ok THEN [ok |-> FALSE, db |-> g.db, err |-> g.err, val |-> FALSE]
       ELSE IF ~HasTable(db.tabs, "users")
       THEN [ok |-> FALSE, db |-> db, err |-> "Sql", val |-> FALSE]
       ELSE IF CountById(db.tabs, "users", id) = 0
       THEN [ok |-> TRUE, db |-> db, err |-> "", val |-> FALSE]
       ELSE IF RowById(db.tabs, "users", id)["role"] = TextV("admin")
       THEN [ok |-> FALSE, db |-> db, err |-> "Constraint", val |-> FALSE]
       ELSE [ok |-> TRUE,
             db |-> Written([db.tabs EXCEPT !["users"].rows =
                                {r \in @ : r["id"] # IntV(id)}]),
             err |-> "", val |-> TRUE]

\* get_users_count (main.rs): opens with get_connection
GetUsersCount(db) ==
    LET c == OpenCreating(db)
    IN IF ~HasTable(c.tabs, "users")
       THEN [ok |-> FALSE, db |-> c, err |-> "Sql", val |-> 0]
       ELSE [ok |-> TRUE, db |-> c, err |-> "",
             val |-> Cardinality(RowsOf(c.tabs, "users"))]

-----------------------------------------------------------------------------
(* State shared by every specification *)

NoFiles == [p \in {} |-> <<>>]
Idle == [pc |-> "idle"]
\* pre is the state of the database file the operation found
Ret(op, pre, ok, err, val) ==
    [op |-> op, pre |-> pre, ok |-> ok, err |-> err, val |-> val]

InitStores ==
    /\ media = NoFiles
    /\ clock = 0
    /\ backups = NoFiles
    /\ archives = NoFiles
    /\ sidecars = NoFiles
    /\ exports = NoFiles
    /\ job = Idle
    /\ faults = 0
    /\ hist = {}
    /\ ret = Ret("start", "Absent", TRUE, "", 0)

-----------------------------------------------------------------------------
(* Connection guard and user operations as actions on the live database *)

GuardedOpen ==
    LET r == OpenGuarded(dbs[HybridDb])
    IN /\ dbs' = [dbs EXCEPT ![HybridDb] = r.db]
       /\ ret' = Ret("get_connection_safe", dbs[HybridDb].st, r.ok, r.err, 0)
       /\ hist' = IF dbs[HybridDb].st = "PresentEmpty" THEN hist \cup {[mark |-> "healed"]} ELSE hist
       /\ UNCHANGED <<media, clock, backups, archives, sidecars, exports, job, faults>>

ReadOnlyOpen ==
    LET r == OpenReadOnly(dbs[HybridDb])
    IN /\ dbs' = [dbs EXCEPT ![HybridDb] = r.db]
       /\ ret' = Ret("get_connection_readonly", dbs[HybridDb].st, r.ok, r.err, 0)
       /\ UNCHANGED <<media, clock, backups, archives, sidecars, exports, job, faults, hist>>

ExistsAndValid ==
    \E statOk \in BOOLEAN :
        LET r == CheckDatabaseExistsAndValid(dbs[HybridDb], statOk)
        IN /\ dbs' = [dbs EXCEPT ![HybridDb] = r.db]
           /\ ret' = Ret("check_database_exists_and_valid", dbs[HybridDb].st, r.ok,
                         IF r.ok THEN "" ELSE "Io", r.val)
           /\ UNCHANGED <<media, clock, backups, archives, sidecars, exports, job, faults, hist>>

InitializeDatabase ==
    LET r == InitializeDatabaseInternal(dbs[HybridDb])
    IN /\ dbs' = [dbs EXCEPT ![HybridDb] = r.db]
       /\ ret' = Ret("initialize_database", dbs[HybridDb].st, r.ok, IF r.ok THEN "" ELSE "Sql", 0)
       /\ UNCHANGED <<media, clock, backups, archives, sidecars, exports, job, faults, hist>>

UserIdsTried == 1..(MaxUserId + 1)

DoCreateUser ==
    \E name \in UserNames, role \in Roles :
        LET r == CreateUser(dbs[HybridDb], name, role)
        IN /\ r.ok => r.val <= MaxUserId
           /\ dbs' = [dbs EXCEPT ![HybridDb] = r.db]
           /\ ret' = Ret("create_user", dbs[HybridDb].st, r.ok, r.err, r.val)
           /\ hist' = IF dbs[HybridDb].st = "PresentEmpty" THEN hist \cup {[mark |-> "healed"]} ELSE hist
           /\ UNCHANGED <<media, clock, backups, archives, sidecars, exports, job, faults>>

DoUpdateUser ==
    \E id \in UserIdsTried, name \in UserNames, role \in Roles :
        LET r == UpdateUser(dbs[HybridDb], id, name, role)
        IN /\ dbs' = [dbs EXCEPT ![HybridDb] = r.db]
           /\ ret' = Ret("update_user", dbs[HybridDb].st, r.ok, r.err, r.val)
           /\ hist' = IF dbs[HybridDb].st = "PresentEmpty" THEN hist \cup {[mark |-> "healed"]} ELSE hist
           /\ UNCHANGED <<media, clock, backups, archives, sidecars, exports, job, faults>>

DoDeleteUser ==
    \E id \in UserIdsTried :
        LET r == DeleteUser(dbs[HybridDb], id)
        IN /\ dbs' = [dbs EXCEPT ![HybridDb] = r.db]
           /\ ret' = Ret("delete_user", dbs[HybridDb].st, r.ok, r.err, r.val)
           /\ hist' = IF dbs[HybridDb].st = "PresentEmpty" THEN hist \cup {[mark |-> "healed"]} ELSE hist
           /\ UNCHANGED <<media, clock, backups, archives, sidecars, exports, job, faults>>

DoGetUsersCount ==
    LET r == GetUsersCount(dbs[HybridDb])
    IN /\ dbs' = [dbs EXCEPT ![HybridDb] = r.db]
       /\ ret' = Ret("get_users_count", dbs[HybridDb].st, r.ok, r.err, r.val)
       /\ UNCHANGED <<media, clock, backups, archives, sidecars, exports, job, faults, hist>>

-----------------------------------------------------------------------------
(* SpecGuard: the connection guard, the initializer and the user           *)
(* operations, from a database file that does not exist yet.               *)

InitGuard ==
    /\ dbs = [p \in DbPaths |-> AbsentDb]
    /\ InitStores

NextGuard ==
    \/ GuardedOpen
    \/ ReadOnlyOpen
    \/ ExistsAndValid
    \/ InitializeDatabase
    \/ DoCreateUser
    \/ DoUpdateUser
    \/ DoDeleteUser
    \/ DoGetUsersCount

SpecGuard == InitGuard /\ [][NextGuard]_vars

LiveSt == dbs[HybridDb].st

-----------------------------------------------------------------------------
(* Claims about the connection guard *)

IsValidDb(db) ==
    /\ db.st # "Absent"
    /\ HasTable(db.tabs, "users")
    /\ HasTable(db.tabs, "high_ranking_officers")
    /\ AdminRows(db.tabs) # {}

\* C7 as stated: a Guarded open and a ReadOnly open succeed only when the
\* file is PresentValid; on an Absent or a PresentEmpty file both fail.
C7_OnlyPresentValidOpens ==
    [][ret'.op \in {"get_connection_safe", "get_connection_readonly"}
          => (ret'.ok <=> LiveSt = "PresentValid")]_vars

\* C7 amended: a Guarded open succeeds exactly on a PresentValid file; a
\* ReadOnly open fails exactly on an Absent file (it opens a zero-byte file).
C7_GuardedOnlyValid_ReadOnlyUnlessAbsent ==
    [][/\ ret'.op = "get_connection_safe" => (ret'.ok <=> LiveSt = "PresentValid")
       /\ ret'.op = "get_connection_readonly" => (ret'.ok <=> LiveSt # "Absent")]_vars

C7_Witness ==
    /\ ret.op = "get_connection_readonly"
    /\ ret.ok
    /\ ret.pre = "PresentEmpty"
    /\ LiveSt = "PresentEmpty"

C9_ExactAndNeverAnError ==
    ret.op = "check_database_exists_and_valid"
        => /\ ret.ok
           /\ ret.val <=> IsValidDb(dbs[HybridDb])

\* C10 as stated: openReadOnly fails on an absent file, and neither it nor
\* existsAndValid creates, deletes or modifies the database file.
C10_ProbingNeverTouchesFile ==
    [][ret'.op \in {"get_connection_readonly", "check_database_exists_and_valid"}
          => /\ dbs'[HybridDb] = dbs[HybridDb]
             /\ (ret'.op = "get_connection_readonly" /\ LiveSt = "Absent") => ~ret'.ok]_vars

\* C10 amended: openReadOnly fails on an absent file and never changes the
\* file; existsAndValid never creates or modifies it, and the one change it
\* makes is to delete a zero-byte file.
C10_ProbingOnlyRemovesEmptyFile ==
    [][/\ ret'.op = "get_connection_readonly"
            => /\ dbs'[HybridDb] = dbs[HybridDb]
               /\ LiveSt = "Absent" => ~ret'.ok
       /\ ret'.op = "check_database_exists_and_valid"
            => \/ dbs'[HybridDb] = dbs[HybridDb]
               \/ LiveSt = "PresentEmpty" /\ dbs'[HybridDb] = AbsentDb]_vars

C10_Witness ==
    /\ ret.op = "check_database_exists_and_valid"
    /\ ret.pre = "PresentEmpty"
    /\ ret.ok
    /\ ret.val = FALSE
    /\ LiveSt = "Absent"

-----------------------------------------------------------------------------
(* Media Store (file_manager.rs).  The media tree maps a path relative to   *)
(* the media root to [dir, data]: the subdirectory holding the file and its *)
(* bytes.                                                                   *)

\* the uploads tried: bytes and the MIME type declared for them
Uploads ==
    {[data |-> <<1>>, mime |-> "image/png"],
     [data |-> <<2, 3>>, mime |-> "image/jpeg"]}

\* str.starts_with(pre)
StartsWith(str, pre) == Len(str) >= Len(pre) /\ SubSeq(str, 1, Len(pre)) = pre

\* str.contains(sub)
Contains(str, sub) ==
    \E i \in 1..(Len(str) - Len(sub) + 1) : SubSeq(str, i, i + Len(sub) - 1) = sub

Extension(mime) ==
    CASE mime = "image/jpeg" -> "jpg"
      [] mime = "image/png" -> "png"
      [] mime = "image/webp" -> "webp"
      [] mime = "image/gif" -> "gif"
      [] OTHER -> "jpg"

\* the two entity kinds: table, open mode, subdirectory and file name prefix
UserKind ==
    [table |-> "users", guarded |-> FALSE, dir |-> "avatars", prefix |-> "avatar_",
     cmd |-> "hybrid_avatar", cleanup |-> "cleanup_orphaned_avatar_files"]
OfficerKind ==
    [table |-> "high_ranking_officers", guarded |-> TRUE, dir |-> "high_ranks",
     prefix |-> "officer_", cmd |-> "hybrid_high_rank_avatar",
     cleanup |-> "cleanup_orphaned_high_rank_avatar_files"]
Kinds == {UserKind, OfficerKind}

\* a file name placed above the kind's directory
FileNameAbove(kind, id, now, mime) ==
    kind.dir \o "/../../" \o kind.prefix \o ToString(id) \o "_" \o ToString(now)
        \o "." \o Extension(mime)

\* format!("avatar_{}_{}.{}", id, timestamp, extension) under the kind's
\* directory, relative to the media root
FileName(kind, id, now, mime) ==
    kind.dir \o "/" \o kind.prefix \o ToString(id) \o "_" \o ToString(now)
        \o "." \o Extension(mime)

WithFile(m, path, dir, data) ==
    [p \in DOMAIN m \cup {path} |->
        IF p = path THEN [dir |-> dir, data |-> data] ELSE m[p]]

WithoutFiles(m, gone) == [p \in DOMAIN m \ gone |-> m[p]]

\* save_avatar_file / save_high_rank_avatar_file: [ok, media, path];
\* createOk is whether File::create and write_all succeed
SaveAvatarFile(kind, m, id, data, mime, now, createOk) ==
    LET path == FileName(kind, id, now, mime)
    IN IF createOk
       THEN [ok |-> TRUE, media |-> WithFile(m, path, kind.dir, data), path |-> path]
       ELSE [ok |-> FALSE, media |-> m, path |-> path]

\* get_avatar_file_path(..).is_ok()
FileExists(m, path) == path \in DOMAIN m

\* the subdirectories FileManager::new creates under the media root
MediaDirs == {"avatars", "high_ranks"}

\* A path that starts with "/" names a place outside the media root
\* (media_dir.join of an absolute path is that path); every other key of the
\* tree is relative to the root.  The symbolic links a tree may hold, and
\* where each points:
LinkTargets ==
    [p \in {"avatars/link.png", "avatars/alias.png"} |->
        IF p = "avatars/link.png" THEN "/outside/database.db"
        ELSE "high_ranks/officer_1_0.png"]

\* file_path.canonicalize(): [ok, path]; a link resolves to its target and
\* the call fails when nothing is there
Canonicalize(m, path) ==
    LET target == IF path \in DOMAIN LinkTargets /\ path \in DOMAIN m
                  THEN LinkTargets[path] ELSE path
    IN [ok |-> target \in DOMAIN m \/ target \in MediaDirs, path |-> target]

\* canonical_file.starts_with(canonical_media)
WithinMedia(canonical) == ~StartsWith(canonical, "/")

\* delete_avatar_file without the checks on the path
DeleteAvatarFileUnchecked(m, path, rmOk) ==
    IF path \notin DOMAIN m THEN [ok |-> TRUE, media |-> m]
    ELSE IF rmOk THEN [ok |-> TRUE, media |-> WithoutFiles(m, {path})]
    ELSE [ok |-> FALSE, media |-> m]

\* delete_avatar_file / delete_high_rank_avatar_file: [ok, media];
\* rmOk is whether fs::remove_file succeeds
DeleteAvatarFile(m, path, rmOk) ==
    LET c == Canonicalize(m, path)
    IN IF path = "" THEN [ok |-> FALSE, media |-> m]
       ELSE IF Contains(path, "..") THEN [ok |-> FALSE, media |-> m]
       ELSE IF c.ok /\ ~WithinMedia(c.path) THEN [ok |-> FALSE, media |-> m]
       ELSE IF ~c.ok THEN [ok |-> TRUE, media |-> m]
       ELSE IF path \in MediaDirs THEN [ok |-> FALSE, media |-> m]
       ELSE IF rmOk THEN [ok |-> TRUE, media |-> WithoutFiles(m, {path})]
       ELSE [ok |-> FALSE, media |-> m]

\* read_dir(avatars_dir): the files the sweep lists
AvatarsDirFiles(m) == {p \in DOMAIN m : m[p].dir = "avatars"}

\* the loop of FileManager::cleanup_orphaned_files over a directory listing;
\* stuck is the set of files whose remove_file fails
RECURSIVE SweepLoop(_, _, _, _, _)
SweepLoop(m, listing, valid, stuck, count) ==
    IF listing = <<>> THEN [ok |-> TRUE, media |-> m, val |-> count]
    ELSE LET p == Head(listing)
         IN IF p \in valid
            THEN SweepLoop(m, Tail(listing), valid, stuck, count)
            ELSE IF p \in stuck
            THEN [ok |-> FALSE, media |-> m, val |-> 0]
            ELSE SweepLoop(WithoutFiles(m, {p}), Tail(listing), valid, stuck,
                           count + 1)

\* FileManager::cleanup_orphaned_files: [ok, media, val]; listing is the
\* order in which read_dir yields the files of avatars/
CleanupOrphanedFilesIn(m, listing, valid, stuck) ==
    SweepLoop(m, listing, valid, stuck, 0)

\* every order in which a directory holding the files of S can be listed
Listings(S) ==
    {l \in [1..Cardinality(S) -> S] : \A p \in S : \E k \in DOMAIN l : l[k] = p}

-----------------------------------------------------------------------------
(* Avatar managers (hybrid_avatar.rs, hybrid_high_rank_avatar.rs):          *)
(* [ok, db, media, err, val]                                                *)

\* the user manager opens with get_connection, the officer manager with
\* get_connection_safe
OpenFor(kind, db) ==
    IF kind.guarded THEN OpenGuarded(db)
    ELSE [ok |-> TRUE, db |-> OpenCreating(db), err |-> ""]

AvatarFields == {"avatar_path", "avatar_updated_at", "avatar_mime", "avatar_size"}

\* SELECT avatar_path FROM <table> WHERE avatar_path IS NOT NULL
ValidPaths(tabs, t) ==
    {r["avatar_path"].s : r \in {x \in RowsOf(tabs, t) : ~IsNull(x["avatar_path"])}}

\* save_avatar without the existence check
SaveCheckSkipped(kind, db, id) ==
    LET o == OpenFor(kind, db)
    IN [ok |-> o.ok /\ HasTable(o.db.tabs, kind.table), db |-> o.db,
        err |-> IF o.ok THEN "Sql" ELSE o.err]

\* save_avatar, up to the existence check: [ok, db, err]
SaveCheck(kind, db, id) ==
    LET o == OpenFor(kind, db)
    IN IF ~o.ok THEN [ok |-> FALSE, db |-> o.db, err |-> o.err]
       ELSE IF ~HasTable(o.db.tabs, kind.table)
       THEN [ok |-> FALSE, db |-> o.db, err |-> "Sql"]
       ELSE IF CountById(o.db.tabs, kind.table, id) = 0
       THEN [ok |-> FALSE, db |-> o.db, err |-> "NotFound"]
       ELSE [ok |-> TRUE, db |-> o.db, err |-> ""]

\* save_avatar that never deletes the file the row references
SaveKeepsOld(kind, db, m, id, rmOk) == m

\* save_avatar, deleting the file the row references; the result of the
\* deletion is dropped
SaveDeleteOld(kind, db, m, id, rmOk) ==
    IF ~HasTable(db.tabs, kind.table) \/ CountById(db.tabs, kind.table, id) = 0
    THEN m
    ELSE LET old == RowById(db.tabs, kind.table, id)["avatar_path"]
         IN IF IsNull(old) THEN m
            ELSE DeleteAvatarFile(m, old.s, rmOk).media

\* save_avatar that leaves avatar_mime as it was
SaveUpdateRowKeepsMime(kind, db, id, path, now, mime, data) ==
    LET upd == [c \in AvatarFields \ {"avatar_mime"} |->
                   IF c = "avatar_path" THEN TextV(path)
                   ELSE IF c = "avatar_updated_at" THEN TextV(ToString(now))
                   ELSE IntV(Len(data))]
    IN Written(UpdateById(db.tabs, kind.table, id, upd))

\* save_avatar, the UPDATE of the four avatar fields
SaveUpdateRow(kind, db, id, path, now, mime, data) ==
    LET upd == [c \in AvatarFields |->
                   IF c = "avatar_path" THEN TextV(path)
                   ELSE IF c = "avatar_updated_at" THEN TextV(ToString(now))
                   ELSE IF c = "avatar_mime" THEN TextV(mime)
                   ELSE IntV(Len(data))]
    IN Written(UpdateById(db.tabs, kind.table, id, upd))

\* HybridAvatarInfo / HybridHighRankAvatarInfo: the entity id and the fields
AvatarInfoOf(id, fields) == [id |-> id] @@ fields

\* save_avatar; it returns the info of what it stored, file_exists true,
\* or an error for the entity
SaveAvatar(kind, db, m, id, data, mime, now, rmOk, createOk, updOk) ==
    LET c == SaveCheck(kind, db, id)
    IN IF ~c.ok
       THEN [ok |-> FALSE, db |-> c.db, media |-> m, err |-> c.err,
             val |-> [id |-> id]]
       ELSE
       LET m1 == SaveDeleteOld(kind, c.db, m, id, rmOk)
           w == SaveAvatarFile(kind, m1, id, data, mime, now, createOk)
       IN IF ~w.ok
          THEN [ok |-> FALSE, db |-> c.db, media |-> m1, err |-> "Io",
                val |-> [id |-> id]]
          ELSE IF ~updOk
          THEN [ok |-> FALSE, db |-> c.db, media |-> w.media, err |-> "Sql",
                val |-> [id |-> id]]
          ELSE [ok |-> TRUE,
                db |-> SaveUpdateRow(kind, c.db, id, w.path, now, mime, data),
                media |-> w.media, err |-> "",
                val |-> AvatarInfoOf(id, [avatar_path |-> TextV(w.path),
                                          avatar_updated_at |-> TextV(ToString(now)),
                                          avatar_mime |-> TextV(mime),
                                          avatar_size |-> IntV(Len(data)),
                                          file_exists |-> TRUE])]

NoAvatarInfo ==
    [avatar_path |-> NullV, avatar_updated_at |-> NullV, avatar_mime |-> NullV,
     avatar_size |-> NullV, file_exists |-> FALSE]

\* get_user_avatar_info / get_avatar_info
GetAvatarInfo(kind, db, m, id) ==
    LET o == OpenFor(kind, db)
    IN IF ~o.ok
       THEN [ok |-> FALSE, db |-> o.db, media |-> m, err |-> o.err,
             val |-> AvatarInfoOf(id, NoAvatarInfo)]
       ELSE IF ~HasTable(o.db.tabs, kind.table)
               \/ CountById(o.db.tabs, kind.table, id) = 0
       THEN [ok |-> kind.guarded, db |-> o.db, media |-> m,
             err |-> IF kind.guarded THEN "" ELSE "Sql",
             val |-> AvatarInfoOf(id, NoAvatarInfo)]
       ELSE LET r == RowById(o.db.tabs, kind.table, id)
            IN [ok |-> TRUE, db |-> o.db, media |-> m, err |-> "",
                val |-> AvatarInfoOf(id,
                           [avatar_path |-> r["avatar_path"],
                            avatar_updated_at |-> r["avatar_updated_at"],
                            avatar_mime |-> r["avatar_mime"],
                            avatar_size |-> r["avatar_size"],
                            file_exists |-> /\ ~IsNull(r["avatar_path"])
                                            /\ FileExists(m, r["avatar_path"].s)])]

\* the retry budget of delete_avatar
DeleteAttempts == 3

\* a retry loop that makes every attempt whether or not one succeeded
DeleteRetryNoStop(m, path, attempt, failures) ==
    [media |-> DeleteAvatarFile(m, path, failures < DeleteAttempts).media,
     attempts |-> DeleteAttempts, deleted |-> failures < DeleteAttempts]

\* the retry loop of delete_avatar from the given attempt on: [media,
\* attempts, deleted]; the first `failures` removals of the file fail
RECURSIVE DeleteRetry(_, _, _, _)
DeleteRetry(m, path, attempt, failures) ==
    LET d == DeleteAvatarFile(m, path, attempt > failures)
    IN IF d.ok THEN [media |-> d.media, attempts |-> attempt, deleted |-> TRUE]
       ELSE IF attempt < DeleteAttempts
       THEN DeleteRetry(m, path, attempt + 1, failures)
       ELSE [media |-> m, attempts |-> attempt, deleted |-> FALSE]

\* what a caller and the log see of delete_avatar: the entity, the value
\* returned, the attempts made on the file and whether one succeeded
DeleteOutcome(id, returned, attempts, deleted) ==
    [id |-> id, returned |-> returned, attempts |-> attempts, deleted |-> deleted]

\* a delete_avatar that fails when the row references no file
DeleteAvatarNeedsFile(kind, db, m, id, failures) ==
    LET o == OpenFor(kind, db)
        exists == o.ok /\ HasTable(o.db.tabs, kind.table)
                       /\ CountById(o.db.tabs, kind.table, id) > 0
    IN IF exists /\ IsNull(RowById(o.db.tabs, kind.table, id)["avatar_path"])
       THEN [ok |-> FALSE, db |-> o.db, media |-> m, err |-> "NotFound",
             val |-> DeleteOutcome(id, FALSE, 0, FALSE)]
       ELSE [ok |-> exists,
             db |-> IF exists
                    THEN Written(UpdateById(o.db.tabs, kind.table, id,
                                            [c \in AvatarFields |-> NullV]))
                    ELSE o.db,
             media |-> m, err |-> IF exists THEN "" ELSE "NotFound",
             val |-> DeleteOutcome(id, exists, 0, FALSE)]

\* delete_avatar; failures is how many attempts to remove the file fail
\* before one succeeds
DeleteAvatar(kind, db, m, id, failures) ==
    LET o == OpenFor(kind, db)
        none == DeleteOutcome(id, FALSE, 0, FALSE)
    IN IF ~o.ok
       THEN [ok |-> FALSE, db |-> o.db, media |-> m, err |-> o.err, val |-> none]
       ELSE IF ~HasTable(o.db.tabs, kind.table)
       THEN [ok |-> FALSE, db |-> o.db, media |-> m, err |-> "Sql", val |-> none]
       ELSE IF CountById(o.db.tabs, kind.table, id) = 0
       THEN [ok |-> FALSE, db |-> o.db, media |-> m, err |-> "NotFound",
             val |-> none]
       ELSE
       LET old == RowById(o.db.tabs, kind.table, id)["avatar_path"]
           d == IF IsNull(old) \/ old.s = ""
                THEN [media |-> m, attempts |-> 0, deleted |-> FALSE]
                ELSE DeleteRetry(m, old.s, 1, failures)
           upd == [c \in AvatarFields |-> NullV]
       IN [ok |-> TRUE,
           db |-> Written(UpdateById(o.db.tabs, kind.table, id, upd)),
           media |-> d.media, err |-> "",
           val |-> DeleteOutcome(id, TRUE, d.attempts, d.deleted)]

\* cleanup_orphaned_files of either manager: the valid paths come from the
\* kind's table, the sweep is FileManager::cleanup_orphaned_files
CleanupOrphanedFiles(kind, db, m, listing, stuck) ==
    LET o == OpenFor(kind, db)
    IN IF ~o.ok
       THEN [ok |-> FALSE, db |-> o.db, media |-> m, err |-> o.err, val |-> 0]
       ELSE IF ~HasTable(o.db.tabs, kind.table)
       THEN [ok |-> FALSE, db |-> o.db, media |-> m, err |-> "Sql", val |-> 0]
       ELSE LET w == CleanupOrphanedFilesIn(m, listing,
                                            ValidPaths(o.db.tabs, kind.table), stuck)
            IN [ok |-> w.ok, db |-> o.db, media |-> w.media,
                err |-> IF w.ok THEN "" ELSE "Io", val |-> w.val]

-----------------------------------------------------------------------------
(* Avatar operations as actions on the live database and the media tree *)

\* the ids tried: the first rows of either table and one id no row has
EntityIds == (1..MaxEntityId) \cup {MaxEntityId + DefaultOfficers}

\* an injected I/O failure counts against the budget
MayFail(okFlags) ==
    LET n == Cardinality({k \in DOMAIN okFlags : ~okFlags[k]})
    IN /\ faults + n <= MaxFaults
       /\ faults' = faults + n

Healed(kind) ==
    IF kind.guarded /\ dbs[HybridDb].st = "PresentEmpty"
    THEN hist \cup {[mark |-> "healed"]} ELSE hist

\* a successful save of an entity whose row already referenced a file
Replaced(kind, id, ok) ==
    IF /\ ok
       /\ ~IsNull(RowById(dbs[HybridDb].tabs, kind.table, id)["avatar_path"])
    THEN {[mark |-> "replaced"]} ELSE {}

\* a delete that directly follows a successful delete of the same entity
Repeated(kind, id) ==
    IF ret.op = "delete_" \o kind.cmd /\ ret.ok /\ ret.val.id = id
    THEN {[mark |-> "repeated"]} ELSE {}

\* the marks that describe the last avatar operation only
StepMarks == {[mark |-> "replaced"], [mark |-> "repeated"]}

Tick ==
    /\ clock < MaxClock
    /\ clock' = clock + 1
    /\ ret' = Ret("tick", dbs[HybridDb].st, TRUE, "", 0)
    /\ UNCHANGED <<dbs, media, backups, archives, sidecars, exports, job, faults, hist>>

\* the uploads the save commands turn away: no bytes, or not an image type
RejectedUploads ==
    {[data |-> <<>>, mime |-> "image/png"],
     [data |-> <<1>>, mime |-> "text/plain"]}

\* 10 * 1024 * 1024 bytes
MAX_SIZE == 10485760

\* the checks of save_hybrid_avatar / save_hybrid_high_rank_avatar: [ok, err]
ValidateUpload(up) ==
    IF up.data = <<>> THEN [ok |-> FALSE, err |-> "Empty"]
    ELSE IF Len(up.data) > MAX_SIZE THEN [ok |-> FALSE, err |-> "TooLarge"]
    ELSE IF ~StartsWith(up.mime, "image/") THEN [ok |-> FALSE, err |-> "InvalidMime"]
    ELSE [ok |-> TRUE, err |-> ""]

SaveAvatarAs(kind) ==
    \E id \in EntityIds, up \in Uploads \cup RejectedUploads,
       rmOk \in BOOLEAN, createOk \in BOOLEAN, updOk \in BOOLEAN :
        LET v == ValidateUpload(up)
            r == IF v.ok
                 THEN SaveAvatar(kind, dbs[HybridDb], media, id, up.data, up.mime,
                                 clock, rmOk, createOk, updOk)
                 ELSE [ok |-> FALSE, db |-> dbs[HybridDb], media |-> media,
                       err |-> v.err, val |-> [id |-> id]]
        IN /\ v.ok \/ (rmOk /\ createOk /\ updOk)
           /\ MayFail(<<rmOk, createOk, updOk>>)
           /\ dbs' = [dbs EXCEPT ![HybridDb] = r.db]
           /\ media' = r.media
           /\ ret' = Ret("save_" \o kind.cmd, dbs[HybridDb].st, r.ok, r.err, r.val)
           /\ hist' = (Healed(kind) \ StepMarks) \cup Replaced(kind, id, r.ok)
           /\ UNCHANGED <<clock, backups, archives, sidecars, exports, job>>

DoSaveAvatar == \E kind \in Kinds : SaveAvatarAs(kind)

DoGetAvatarInfo ==
    \E kind \in Kinds, id \in EntityIds :
        LET r == GetAvatarInfo(kind, dbs[HybridDb], media, id)
        IN /\ dbs' = [dbs EXCEPT ![HybridDb] = r.db]
           /\ ret' = Ret("get_" \o kind.cmd \o "_info", dbs[HybridDb].st, r.ok, r.err,
                         r.val)
           /\ hist' = Healed(kind)
           /\ UNCHANGED <<media, clock, backups, archives, sidecars, exports, job, faults>>

DeleteAvatarAs(kind) ==
    \E id \in EntityIds, failures \in 0..DeleteAttempts :
        LET r == DeleteAvatar(kind, dbs[HybridDb], media, id, failures)
        IN /\ MayFail(<<failures = 0>>)
           /\ dbs' = [dbs EXCEPT ![HybridDb] = r.db]
           /\ media' = r.media
           /\ ret' = Ret("delete_" \o kind.cmd, dbs[HybridDb].st, r.ok, r.err, r.val)
           /\ hist' = (Healed(kind) \ StepMarks) \cup Repeated(kind, id)
           /\ UNCHANGED <<clock, backups, archives, sidecars, exports, job>>

DoDeleteAvatar == \E kind \in Kinds : DeleteAvatarAs(kind)

DoCleanupOrphanedFiles ==
    \E kind \in Kinds, listing \in Listings(AvatarsDirFiles(media)),
       stuck \in {{}} \cup {{p} : p \in AvatarsDirFiles(media)} :
        LET r == CleanupOrphanedFiles(kind, dbs[HybridDb], media, listing, stuck)
        IN /\ MayFail(<<stuck = {}>>)
           /\ dbs' = [dbs EXCEPT ![HybridDb] = r.db]
           /\ media' = r.media
           /\ ret' = Ret(kind.cleanup, dbs[HybridDb].st, r.ok, r.err, r.val)
           /\ hist' = Healed(kind)
           /\ UNCHANGED <<clock, backups, archives, sidecars, exports, job>>

-----------------------------------------------------------------------------
(* SpecAvatar: the avatar managers of both kinds on an initialized database *)

InitializedDb == InitializeDatabaseInternal(AbsentDb).db

InitAvatar ==
    /\ dbs = [p \in DbPaths |-> IF p = HybridDb THEN InitializedDb ELSE AbsentDb]
    /\ InitStores

NextAvatar ==
    \/ Tick
    \/ DoSaveAvatar
    \/ DoGetAvatarInfo
    \/ DoDeleteAvatar
    \/ DoCleanupOrphanedFiles

SpecAvatar == InitAvatar /\ [][NextAvatar]_vars

\* the files of a kind's own subdirectory that no row of the kind references
OrphansOf(kind, db, m) ==
    {p \in DOMAIN m : m[p].dir = kind.dir /\ p \notin ValidPaths(db.tabs, kind.table)}

\* C3 as stated: a successful cleanupOrphans of a kind deletes exactly the
\* unreferenced files of that kind's own subdirectory, deletes no referenced
\* file, and returns how many it deleted, whatever the listing order.
C3_SweepRemovesExactlyOwnOrphans ==
    [][\A kind \in Kinds :
          (ret'.op = kind.cleanup /\ ret'.ok)
             => /\ media' = WithoutFiles(media, OrphansOf(kind, dbs[HybridDb], media))
                /\ ret'.val = Cardinality(OrphansOf(kind, dbs[HybridDb], media))]_vars

\* C11: for an existing entity of either kind and an accepted upload, a
\* successful save immediately followed by getInfo of the same entity
\* reports fileExists = true and the MIME, size and path that save stored
\* and returned.
C11_SaveThenGetInfoAgree ==
    [][\A kind \in Kinds :
          (/\ ret.op = "save_" \o kind.cmd
           /\ ret.ok
           /\ ret'.op = "get_" \o kind.cmd \o "_info"
           /\ ret'.val.id = ret.val.id)
             => /\ ret'.ok
                /\ ret'.val.file_exists
                /\ ret'.val.avatar_mime = ret.val.avatar_mime
                /\ ret'.val.avatar_size = ret.val.avatar_size
                /\ ret'.val.avatar_path = ret.val.avatar_path]_vars

C11_Witness ==
    /\ ret.op = "get_" \o OfficerKind.cmd \o "_info"
    /\ ret.ok
    /\ ret.val.file_exists
    /\ ret.val.avatar_mime = TextV("image/jpeg")
    /\ ret.val.avatar_size = IntV(2)
    /\ ret.val.avatar_path = TextV(FileName(OfficerKind, ret.val.id, clock, "image/jpeg"))

\* the files on disk that save_avatar_file / save_high_rank_avatar_file
\* wrote for an entity
StoredFilesOf(kind, id, m) ==
    {p \in DOMAIN m : \E t \in 0..MaxClock, up \in Uploads :
                          p = FileName(kind, id, t, up.mime)}

\* C12: after a successful save the newly written file exists and is the
\* one the row references and the row's MIME is the input's; a previously
\* referenced file is gone unless its deletion failed; and when no deletion
\* fails a successful save of an entity whose only stored file is the
\* referenced one leaves exactly one stored file for the entity, also when
\* the saves fall in the same clock second.
C12_SaveReplacesPreviousFile ==
    [][\A kind \in Kinds :
          (ret'.op = "save_" \o kind.cmd /\ ret'.ok)
             => LET id == ret'.val.id
                    new == ret'.val.avatar_path.s
                    old == RowById(dbs[HybridDb].tabs, kind.table, id)["avatar_path"]
                    before == StoredFilesOf(kind, id, media)
                    row == RowById(dbs'[HybridDb].tabs, kind.table, id)
                IN /\ new \in DOMAIN media'
                   /\ row["avatar_path"] = TextV(new)
                   /\ row["avatar_mime"] = ret'.val.avatar_mime
                   /\ (~IsNull(old) /\ faults' = faults /\ old.s # new)
                         => old.s \notin DOMAIN media'
                   /\ (/\ faults' = faults
                       /\ before \subseteq (IF IsNull(old) THEN {} ELSE {old.s}))
                         => StoredFilesOf(kind, id, media') = {new}]_vars

\* a second successful save of a user within the same clock second, no
\* deletion having failed: one stored file, the one the row references
C12_Witness ==
    /\ ret.op = "save_" \o UserKind.cmd
    /\ ret.ok
    /\ [mark |-> "replaced"] \in hist
    /\ clock = 0
    /\ faults = 0
    /\ StoredFilesOf(UserKind, ret.val.id, media) = {ret.val.avatar_path.s}

\* C13: delete of an existing entity whose avatar_path is not null tries
\* the file at most 3 times and stops at the first success (one attempt
\* when no removal fails; fewer than 3 attempts only when one succeeded),
\* then clears the four avatar fields and returns true whether or not the
\* file could be deleted.
C13_DeleteRetriesThenClears ==
    [][\A kind \in Kinds :
          (/\ ret'.op = "delete_" \o kind.cmd
           /\ CountById(dbs[HybridDb].tabs, kind.table, ret'.val.id) > 0
           /\ ~IsNull(RowById(dbs[HybridDb].tabs, kind.table,
                              ret'.val.id)["avatar_path"]))
             => LET out == ret'.val
                    row == RowById(dbs'[HybridDb].tabs, kind.table, out.id)
                IN /\ ret'.ok /\ out.returned
                   /\ out.attempts <= DeleteAttempts
                   /\ out.attempts < DeleteAttempts => out.deleted
                   /\ faults' = faults => out.attempts = 1
                   /\ \A c \in AvatarFields : IsNull(row[c])]_vars

\* a delete all of whose attempts on the file failed: the file is still on
\* disk, the row is cleared, the call returned true
C13_Witness ==
    /\ ret.op = "delete_" \o OfficerKind.cmd
    /\ ret.ok
    /\ ret.val.attempts = DeleteAttempts
    /\ ~ret.val.deleted
    /\ StoredFilesOf(OfficerKind, ret.val.id, media) # {}
    /\ IsNull(RowById(dbs[HybridDb].tabs, OfficerKind.table,
                      ret.val.id)["avatar_path"])

\* C14: delete is idempotent for an existing entity of either kind: a
\* delete directly after a delete of the same entity returns no error and
\* makes no attempt on any file, and after each of the two calls the four
\* avatar fields of the row are null.
C14_DeleteIdempotent ==
    [][\A kind \in Kinds :
          (/\ ret.op = "delete_" \o kind.cmd
           /\ ret'.op = "delete_" \o kind.cmd
           /\ ret'.val.id = ret.val.id
           /\ CountById(dbs[HybridDb].tabs, kind.table, ret.val.id) > 0)
             => LET first == RowById(dbs[HybridDb].tabs, kind.table, ret.val.id)
                    second == RowById(dbs'[HybridDb].tabs, kind.table, ret.val.id)
                IN /\ ret.ok /\ ret'.ok /\ ret'.val.returned
                   /\ ret'.val.attempts = 0
                   /\ media' = media
                   /\ \A c \in AvatarFields : IsNull(first[c]) /\ IsNull(second[c])]_vars

\* the second of two deletes in a row of the same existing user
C14_Witness ==
    /\ ret.op = "delete_" \o UserKind.cmd
    /\ ret.ok
    /\ ret.val.attempts = 0
    /\ [mark |-> "repeated"] \in hist
    /\ [mark |-> "replaced"] \notin hist
    /\ media = NoFiles
    /\ clock = 0
    /\ faults = 0

\* C15: save (of an upload the command accepts) and delete for an entity id
\* that has no row fail with NotFound and change nothing: the media tree and
\* the database are as before.
C15_MissingEntityChangesNothing ==
    [][\A kind \in Kinds :
          (/\ ret'.op \in {"save_" \o kind.cmd, "delete_" \o kind.cmd}
           /\ ret'.err \notin {"Empty", "TooLarge", "InvalidMime"}
           /\ CountById(dbs[HybridDb].tabs, kind.table, ret'.val.id) = 0)
             => /\ ~ret'.ok
                /\ ret'.err = "NotFound"
                /\ media' = media
                /\ dbs' = dbs]_vars

\* a save for an officer id no row has, refused while files and avatars of
\* other entities exist
C15_Witness ==
    /\ ret.op = "save_" \o OfficerKind.cmd
    /\ ~ret.ok
    /\ ret.err = "NotFound"
    /\ ret.val.id = MaxEntityId + DefaultOfficers
    /\ media # NoFiles
    /\ ValidPaths(dbs[HybridDb].tabs, OfficerKind.table) # {}

\* C16: in every state reached by avatar saves and deletes of either kind,
\* successful or failed, each entity row has its four avatar fields all null
\* or all non-null, and a non-null avatar_path is a relative path without a
\* parent-directory segment.
C16_AvatarFieldsAllOrNone ==
    \A kind \in Kinds : \A r \in RowsOf(dbs[HybridDb].tabs, kind.table) :
        \/ \A c \in AvatarFields : IsNull(r[c])
        \/ /\ \A c \in AvatarFields : ~IsNull(r[c])
           /\ r["avatar_path"].s # ""
           /\ ~StartsWith(r["avatar_path"].s, "/")
           /\ ~Contains(r["avatar_path"].s, "..")

\* a save that failed at its UPDATE while a user and an officer hold avatars
C16_Witness ==
    /\ ret.op = "save_" \o UserKind.cmd
    /\ ~ret.ok
    /\ ret.err = "Sql"
    /\ \A kind \in Kinds : ValidPaths(dbs[HybridDb].tabs, kind.table) # {}

\* C26: the avatar managers of the two kinds are equivalent up to renaming:
\* a getInfo of one kind for an id that has no row returns the same
\* success-or-failure outcome as the getInfo of the other kind does for an
\* id that has no row in its table, on the same database.
C26_ManagersAgreeOnMissingEntity ==
    [][\A kind \in Kinds, other \in Kinds :
          (/\ ret'.op = "get_" \o kind.cmd \o "_info"
           /\ dbs[HybridDb].st = "PresentValid"
           /\ CountById(dbs[HybridDb].tabs, kind.table, ret'.val.id) = 0
           /\ CountById(dbs[HybridDb].tabs, other.table, ret'.val.id) = 0)
             => GetAvatarInfo(other, dbs[HybridDb], media, ret'.val.id).ok = ret'.ok]_vars

\* the rows of a kind whose avatar_path names a file that is not on disk
DanglingRows(kind, db, m) ==
    {r \in RowsOf(db.tabs, kind.table) :
        ~IsNull(r["avatar_path"]) /\ ~FileExists(m, r["avatar_path"].s)}

\* C27: after any completed save, delete or cleanupOrphans, successful or
\* failed (a save that could not create its file or update its row
\* included), no row of either kind references a file that is missing.
C27_NoRowPointsAtMissingFile ==
    [][\A kind \in Kinds :
          (ret'.op \in {"save_" \o kind.cmd, "delete_" \o kind.cmd, kind.cleanup}
           /\ dbs'[HybridDb].st = "PresentValid")
             => \A k \in Kinds : DanglingRows(k, dbs'[HybridDb], media') = {}]_vars

-----------------------------------------------------------------------------
(* SpecStore: the Media Store called directly, with any path string.  The  *)
(* tree starts with a file of each kind, a link to a file outside the root, *)
(* a link to a file inside it, and the outside file itself.                 *)

MaxFiles == 6

StoreFiles ==
    [p \in {FileName(UserKind, 1, 0, "image/png"),
            FileName(OfficerKind, 1, 0, "image/png"),
            "avatars/link.png", "avatars/alias.png", "/outside/database.db"} |->
        IF p = "/outside/database.db" THEN [dir |-> "/outside", data |-> <<9>>]
        ELSE IF p \in DOMAIN LinkTargets THEN [dir |-> "avatars", data |-> <<>>]
        ELSE IF p = FileName(UserKind, 1, 0, "image/png")
        THEN [dir |-> "avatars", data |-> <<1>>]
        ELSE [dir |-> "high_ranks", data |-> <<1>>]]

\* the paths tried: every entry of the tree, the empty path, paths with a
\* parent segment, a directory, and files that do not exist
PathsTried ==
    DOMAIN StoreFiles
        \cup {"", "../database.db", "avatars/../../database.db", "avatars",
              "avatars/missing.png", "/outside/missing.db"}

InitStore ==
    /\ dbs = [p \in DbPaths |-> IF p = HybridDb THEN InitializedDb ELSE AbsentDb]
    /\ media = StoreFiles
    /\ clock = 0
    /\ backups = NoFiles
    /\ archives = NoFiles
    /\ sidecars = NoFiles
    /\ exports = NoFiles
    /\ job = Idle
    /\ faults = 0
    /\ hist = {}
    /\ ret = Ret("start", "PresentValid", TRUE, "", 0)

StoreDeleteFile ==
    \E kind \in Kinds, path \in PathsTried, rmOk \in BOOLEAN :
        LET d == DeleteAvatarFile(media, path, rmOk)
        IN /\ MayFail(<<rmOk>>)
           /\ media' = d.media
           /\ ret' = Ret(IF kind = UserKind THEN "delete_avatar_file"
                         ELSE "delete_high_rank_avatar_file",
                         dbs[HybridDb].st, d.ok, IF d.ok THEN "" ELSE "Rejected",
                         [path |-> path])
           /\ UNCHANGED <<dbs, clock, backups, archives, sidecars, exports, job, hist>>

StoreSaveFile ==
    \E kind \in Kinds, up \in Uploads, createOk \in BOOLEAN :
        LET w == SaveAvatarFile(kind, media, 1, up.data, up.mime, clock, createOk)
        IN /\ MayFail(<<createOk>>)
           /\ w.path \in DOMAIN media \/ Cardinality(DOMAIN media) < MaxFiles
           /\ media' = w.media
           /\ ret' = Ret(IF kind = UserKind THEN "save_avatar_file"
                         ELSE "save_high_rank_avatar_file",
                         dbs[HybridDb].st, w.ok, IF w.ok THEN "" ELSE "Io",
                         [path |-> w.path])
           /\ UNCHANGED <<dbs, clock, backups, archives, sidecars, exports, job, hist>>

\* media_dir.join(avatar_path): [store, path].  The media root is the
\* directory media/ beside database.db, so a path that climbs one level
\* reaches the database file; an absolute path replaces the root.
JoinMedia(path) ==
    IF path = "" THEN [store |-> "dir", path |-> ""]
    ELSE IF path \in {"../database.db", "avatars/../../database.db"}
    THEN [store |-> "db", path |-> HybridDb]
    ELSE IF path \in MediaDirs THEN [store |-> "dir", path |-> path]
    ELSE [store |-> "file", path |-> path]

\* FileManager::get_avatar_file_path: [ok, store, path]; the only check is
\* full_path.exists()
GetAvatarFilePath(m, db, path) ==
    LET j == JoinMedia(path)
    IN [ok |-> CASE j.store = "dir" -> TRUE
                 [] j.store = "db" -> db.st # "Absent"
                 [] OTHER -> Canonicalize(m, path).ok,
        store |-> j.store, path |-> j.path]

\* fs::read of the joined path: [ok, err, from, data]; a directory cannot be
\* read, a link is followed, the database file reads as its table count
ReadJoined(m, db, path) ==
    LET f == GetAvatarFilePath(m, db, path)
        target == Canonicalize(m, path).path
    IN IF ~f.ok THEN [ok |-> FALSE, err |-> "NotFound", from |-> "", data |-> <<>>]
       ELSE IF f.store = "dir"
       THEN [ok |-> FALSE, err |-> "Io", from |-> "", data |-> <<>>]
       ELSE IF f.store = "db"
       THEN [ok |-> TRUE, err |-> "", from |-> HybridDb,
             data |-> <<Cardinality(DOMAIN db.tabs)>>]
       ELSE [ok |-> TRUE, err |-> "", from |-> target, data |-> m[target].data]

\* get_avatar_file_data of the user manager
GetAvatarFileData(m, db, path) ==
    IF path = "" \/ Contains(path, "..")
    THEN [ok |-> FALSE, err |-> "Rejected", from |-> "", data |-> <<>>]
    ELSE ReadJoined(m, db, path)

\* get_avatar_base64 of either manager: the user manager reads through
\* get_avatar_file_data, the officer manager joins and reads directly
GetAvatarBase64(kind, m, db, path) ==
    IF kind = UserKind THEN GetAvatarFileData(m, db, path)
    ELSE ReadJoined(m, db, path)

StoreReadFile ==
    \E kind \in Kinds, path \in PathsTried :
        LET r == GetAvatarBase64(kind, media, dbs[HybridDb], path)
        IN /\ ret' = Ret(IF kind = UserKind THEN "get_hybrid_avatar_base64"
                         ELSE "get_hybrid_high_rank_avatar_base64",
                         dbs[HybridDb].st, r.ok, r.err,
                         [path |-> path, from |-> r.from, data |-> r.data])
           /\ UNCHANGED <<dbs, media, clock, backups, archives, sidecars, exports,
                          job, faults, hist>>

NextStore ==
    \/ Tick
    \/ StoreDeleteFile
    \/ StoreSaveFile
    \/ StoreReadFile

SpecStore == InitStore /\ [][NextStore]_vars

\* C30: reading avatar content by path, for either kind, never returns the
\* content of a file outside the media root: a path that is empty, contains
\* "..", or is absolute is rejected with an error, and every successful
\* read comes from a file under the media root.
C30_ReadsStayInsideMediaRoot ==
    ret.op \in {"get_hybrid_avatar_base64", "get_hybrid_high_rank_avatar_base64"}
       => /\ (\/ ret.val.path = ""
              \/ Contains(ret.val.path, "..")
              \/ StartsWith(ret.val.path, "/")) => ~ret.ok
          /\ ret.ok => (ret.val.from # HybridDb /\ WithinMedia(ret.val.from))

\* the entries of the tree that lie outside the media root
OutsideOf(m) == {p \in DOMAIN m : StartsWith(p, "/")}

\* C17: Media Store delete removes nothing outside the media root: the empty
\* path and every path containing ".." are rejected with an error; a file is
\* removed only when its canonical path lies under the root, and then only
\* that entry; a file that does not exist gives success without any change;
\* a directory gives an error without any change.
C17_DeleteStaysInsideRoot ==
    [][ret'.op \in {"delete_avatar_file", "delete_high_rank_avatar_file"}
          => LET path == ret'.val.path
                 c == Canonicalize(media, path)
             IN /\ \A p \in OutsideOf(media) : p \in DOMAIN media' /\ media'[p] = media[p]
                /\ (path = "" \/ Contains(path, "..")) => (~ret'.ok /\ media' = media)
                /\ media' # media
                      => /\ media' = WithoutFiles(media, {path})
                         /\ c.ok /\ WithinMedia(c.path)
                /\ (path # "" /\ ~Contains(path, "..") /\ ~c.ok)
                      => (ret'.ok /\ media' = media)
                /\ path \in MediaDirs => (~ret'.ok /\ media' = media)]_vars

\* a delete through the link that points outside the root was refused: the
\* link and the outside file are both still there
C17_Witness ==
    /\ ret.op = "delete_avatar_file"
    /\ ret.val.path = "avatars/link.png"
    /\ ~ret.ok
    /\ faults = 0
    /\ {"avatars/link.png", "/outside/database.db"} \subseteq DOMAIN media

-----------------------------------------------------------------------------
(* SpecSingleton: FileManager::get_instance called by several threads.  job *)
(* holds FILE_MANAGER_INSTANCE (the RwLock and the Option inside it) and    *)
(* where each thread stands in get_instance:                                *)
(*   at[t]     "start", "reading", "upgrade", "writing", "construct", "done" *)
(*   readers   the threads holding the read lock                            *)
(*   writer    the thread holding the write lock, 0 when none               *)
(*   instance  the Arc stored, NoInstance when the Option is None           *)
(*   tried     how many times FileManager::new has run                      *)
(*   built     how many of those runs returned Ok                           *)
(*   got[t]    what the thread's last call returned: an instance,           *)
(*             GotError, or NoInstance while it has not returned            *)

MaxThreads == 3
MaxCalls == 2

Threads == 1..MaxThreads
NoInstance == 0
GotError == -1

\* the second check skipped: construct whatever the Option holds
RecheckSkipped(instance) == FALSE

\* `if let Some(ref fm) = *instance` under the write lock
RecheckUnderWriteLock(instance) == instance # NoInstance

InitSingleton ==
    /\ dbs = [p \in DbPaths |-> AbsentDb]
    /\ media = NoFiles
    /\ clock = 0
    /\ backups = NoFiles
    /\ archives = NoFiles
    /\ sidecars = NoFiles
    /\ exports = NoFiles
    /\ job = [pc |-> "get_instance",
              at |-> [t \in Threads |-> "start"],
              calls |-> [t \in Threads |-> 1],
              readers |-> {}, writer |-> 0,
              instance |-> NoInstance, tried |-> 0, built |-> 0,
              got |-> [t \in Threads |-> NoInstance]]
    /\ faults = 0
    /\ hist = {}
    /\ ret = Ret("start", "Absent", TRUE, "", 0)

\* what every step of get_instance leaves alone
SingletonFrame(t, returned) ==
    /\ ret' = IF returned
              THEN Ret("get_instance", "Absent", job'.got[t] # GotError, "",
                       [thread |-> t, instance |-> job'.got[t]])
              ELSE Ret("get_instance_step", "Absent", TRUE, "", t)
    /\ UNCHANGED <<dbs, media, clock, backups, archives, sidecars, exports, hist>>

\* FILE_MANAGER_INSTANCE.read()
ReadLock(t) ==
    /\ job.at[t] = "start"
    /\ job.writer = 0
    /\ job' = [job EXCEPT !.at[t] = "reading", !.readers = @ \cup {t}]
    /\ UNCHANGED faults
    /\ SingletonFrame(t, FALSE)

\* the fast path: return the instance, or drop the read lock and go on
ReadCheck(t) ==
    /\ job.at[t] = "reading"
    /\ job' = IF job.instance # NoInstance
              THEN [job EXCEPT !.at[t] = "done", !.readers = @ \ {t},
                               !.got[t] = job.instance]
              ELSE [job EXCEPT !.at[t] = "upgrade", !.readers = @ \ {t}]
    /\ UNCHANGED faults
    /\ SingletonFrame(t, job.instance # NoInstance)

\* FILE_MANAGER_INSTANCE.write()
WriteLock(t) ==
    /\ job.at[t] = "upgrade"
    /\ job.writer = 0
    /\ job.readers = {}
    /\ job' = [job EXCEPT !.at[t] = "writing", !.writer = t]
    /\ UNCHANGED faults
    /\ SingletonFrame(t, FALSE)

\* the second check, under the write lock
WriteCheck(t) ==
    /\ job.at[t] = "writing"
    /\ job' = IF RecheckUnderWriteLock(job.instance)
              THEN [job EXCEPT !.at[t] = "done", !.writer = 0,
                               !.got[t] = job.instance]
              ELSE [job EXCEPT !.at[t] = "construct"]
    /\ UNCHANGED faults
    /\ SingletonFrame(t, RecheckUnderWriteLock(job.instance))

\* Arc::new(Self::new()?), stored on success; the guard is dropped on return
Construct(t) ==
    \E newOk \in BOOLEAN :
        /\ job.at[t] = "construct"
        /\ MayFail(<<newOk>>)
        /\ job' = IF newOk
                  THEN [job EXCEPT !.at[t] = "done", !.writer = 0,
                                   !.tried = @ + 1, !.built = @ + 1,
                                   !.instance = job.tried + 1,
                                   !.got[t] = job.tried + 1]
                  ELSE [job EXCEPT !.at[t] = "done", !.writer = 0,
                                   !.tried = @ + 1, !.got[t] = GotError]
        /\ SingletonFrame(t, TRUE)

\* the thread calls get_instance again
CallAgain(t) ==
    /\ job.at[t] = "done"
    /\ job.calls[t] < MaxCalls
    /\ job' = [job EXCEPT !.at[t] = "start", !.calls[t] = @ + 1,
                          !.got[t] = NoInstance]
    /\ UNCHANGED faults
    /\ SingletonFrame(t, FALSE)

NextSingleton ==
    \E t \in Threads :
        \/ ReadLock(t)
        \/ ReadCheck(t)
        \/ WriteLock(t)
        \/ WriteCheck(t)
        \/ Construct(t)
        \/ CallAgain(t)

SpecSingleton == InitSingleton /\ [][NextSingleton]_vars

\* C18: under every interleaving of calls to get_instance, FileManager::new
\* succeeds at most once and every caller that got an instance got the one
\* stored; a construction that fails stores nothing and gives its caller an
\* error; and a construction is only ever attempted while no instance is
\* stored, so a call after a failed construction constructs again.
C18_SingletonBuiltOnce ==
    [][/\ job'.built <= 1
       /\ \A t \in Threads :
             job'.got[t] \notin {NoInstance, GotError}
                => job'.got[t] = job'.instance
       /\ \A t \in Threads :
             (job.at[t] = "construct" /\ job'.at[t] = "done")
                => /\ job.instance = NoInstance
                   /\ \/ job'.got[t] = GotError /\ job'.instance = NoInstance
                      \/ job'.got[t] = job'.instance /\ job'.built = job.built + 1
       /\ \A t \in Threads :
             (job.at[t] = "writing" /\ job.instance = NoInstance)
                => job'.at[t] \in {"writing", "construct"}]_vars

\* one construction failed and its caller got the error; a later call
\* constructed the store and two threads hold that same instance
C18_Witness ==
    /\ job.tried = 2
    /\ job.built = 1
    /\ \E t \in Threads : job.got[t] = GotError
    /\ Cardinality({t \in Threads : job.got[t] = job.instance}) = 2

-----------------------------------------------------------------------------
(* SpecSteps: save_avatar taken one statement at a time, with the process  *)
(* allowed to stop between any two statements.                             *)

SaveBegin ==
    \E kind \in Kinds, id \in EntityIds, up \in Uploads :
        LET c == SaveCheck(kind, dbs[HybridDb], id)
        IN /\ job = Idle
           /\ dbs' = [dbs EXCEPT ![HybridDb] = c.db]
           /\ job' = IF c.ok
                     THEN [pc |-> "checked", kind |-> kind, id |-> id, up |-> up,
                           path |-> ""]
                     ELSE Idle
           /\ ret' = IF c.ok
                     THEN Ret("save_step", dbs[HybridDb].st, TRUE, "", "checked")
                     ELSE Ret("save_" \o kind.cmd, dbs[HybridDb].st, FALSE, c.err, "")
           /\ hist' = Healed(kind)
           /\ UNCHANGED <<media, clock, backups, archives, sidecars, exports, faults>>

SaveStepDeleteOld ==
    \E rmOk \in BOOLEAN :
        /\ job.pc = "checked"
        /\ MayFail(<<rmOk>>)
        /\ media' = SaveDeleteOld(job.kind, dbs[HybridDb], media, job.id, rmOk)
        /\ job' = [job EXCEPT !.pc = "deleted"]
        /\ ret' = Ret("save_step", dbs[HybridDb].st, TRUE, "", "deleted")
        /\ UNCHANGED <<dbs, clock, backups, archives, sidecars, exports, hist>>

SaveStepWrite ==
    \E createOk \in BOOLEAN :
        LET w == SaveAvatarFile(job.kind, media, job.id, job.up.data, job.up.mime,
                                clock, createOk)
        IN /\ job.pc = "deleted"
           /\ MayFail(<<createOk>>)
           /\ media' = w.media
           /\ job' = IF w.ok THEN [job EXCEPT !.pc = "written", !.path = w.path]
                     ELSE Idle
           /\ ret' = IF w.ok
                     THEN Ret("save_step", dbs[HybridDb].st, TRUE, "", "written")
                     ELSE Ret("save_" \o job.kind.cmd, dbs[HybridDb].st, FALSE, "Io", "")
           /\ UNCHANGED <<dbs, clock, backups, archives, sidecars, exports, hist>>

SaveStepUpdate ==
    \E updOk \in BOOLEAN :
        /\ job.pc = "written"
        /\ MayFail(<<updOk>>)
        /\ dbs' = IF updOk
                  THEN [dbs EXCEPT ![HybridDb] =
                           SaveUpdateRow(job.kind, dbs[HybridDb], job.id, job.path,
                                         clock, job.up.mime, job.up.data)]
                  ELSE dbs
        /\ job' = Idle
        /\ ret' = Ret("save_" \o job.kind.cmd, dbs[HybridDb].st, updOk,
                      IF updOk THEN "" ELSE "Sql", IF updOk THEN job.path ELSE "")
        /\ UNCHANGED <<media, clock, backups, archives, sidecars, exports, hist>>

\* the process stops in the middle of a save; both stores stay as they are
Crash ==
    /\ job.pc # "idle"
    /\ job' = Idle
    /\ ret' = Ret("crash", dbs[HybridDb].st, FALSE, "", job.pc)
    /\ UNCHANGED <<dbs, media, clock, backups, archives, sidecars, exports, faults,
                   hist>>

NextSteps ==
    \/ Tick
    \/ SaveBegin
    \/ SaveStepDeleteOld
    \/ SaveStepWrite
    \/ SaveStepUpdate
    \/ Crash

SpecSteps == InitAvatar /\ [][NextSteps]_vars

\* the avatar paths of rows of either kind whose file is not on disk
DanglingPaths(db, m) ==
    UNION {IF HasTable(db.tabs, kind.table)
           THEN {p \in ValidPaths(db.tabs, kind.table) : ~FileExists(m, p)}
           ELSE {} : kind \in Kinds}

\* C2 as stated: at every point inside a save, whatever statement the
\* process stopped after, no row references a file missing from disk.
C2_NoMissingFileInsideSave ==
    job.pc # "idle" => DanglingPaths(dbs[HybridDb], media) = {}

-----------------------------------------------------------------------------
(* SpecSweep: a save_avatar command and a cleanup_orphaned_files command    *)
(* of one process running at the same time.  Neither manager takes a lock   *)
(* and each opens its own connection, so the statements of the two commands *)
(* interleave freely.  job holds the save's position and, under "sweep",    *)
(* the position of the cleanup.                                             *)

NoSweep == [pc |-> "idle"]

SweepOf(j) == IF "sweep" \in DOMAIN j THEN j.sweep ELSE NoSweep

WithSweep(j, s) ==
    [f \in DOMAIN j \cup {"sweep"} |-> IF f = "sweep" THEN s ELSE j[f]]

\* cleanup_orphaned_files of a manager, up to the collected valid_paths:
\* [ok, db, err, valid]
CollectValidPaths(kind, db) ==
    LET o == OpenFor(kind, db)
    IN IF ~o.ok THEN [ok |-> FALSE, db |-> o.db, err |-> o.err, valid |-> {}]
       ELSE IF ~HasTable(o.db.tabs, kind.table)
       THEN [ok |-> FALSE, db |-> o.db, err |-> "Sql", valid |-> {}]
       ELSE [ok |-> TRUE, db |-> o.db, err |-> "",
             valid |-> ValidPaths(o.db.tabs, kind.table)]

\* the valid_paths vector the sweep holds
Collected(j, db) == SweepOf(j).valid

SaveStarts ==
    \E kind \in Kinds, id \in EntityIds, up \in Uploads :
        LET c == SaveCheck(kind, dbs[HybridDb], id)
        IN /\ job.pc \in {"idle", "recorded"}
           /\ dbs' = [dbs EXCEPT ![HybridDb] = c.db]
           /\ job' = WithSweep(IF c.ok
                               THEN [pc |-> "checked", kind |-> kind, id |-> id,
                                     up |-> up, path |-> ""]
                               ELSE Idle, SweepOf(job))
           /\ ret' = IF c.ok
                     THEN Ret("save_step", dbs[HybridDb].st, TRUE, "", "checked")
                     ELSE Ret("save_" \o kind.cmd, dbs[HybridDb].st, FALSE, c.err, "")
           /\ hist' = Healed(kind)
           /\ UNCHANGED <<media, clock, backups, archives, sidecars, exports, faults>>

SaveDeletesOld ==
    /\ job.pc = "checked"
    /\ media' = SaveDeleteOld(job.kind, dbs[HybridDb], media, job.id, TRUE)
    /\ job' = [job EXCEPT !.pc = "deleted"]
    /\ ret' = Ret("save_step", dbs[HybridDb].st, TRUE, "", "deleted")
    /\ UNCHANGED <<dbs, clock, backups, archives, sidecars, exports, faults, hist>>

SaveWrites ==
    LET w == SaveAvatarFile(job.kind, media, job.id, job.up.data, job.up.mime,
                            clock, TRUE)
    IN /\ job.pc = "deleted"
       /\ media' = w.media
       /\ job' = IF w.ok THEN [job EXCEPT !.pc = "written", !.path = w.path]
                 ELSE WithSweep(Idle, SweepOf(job))
       /\ ret' = IF w.ok
                 THEN Ret("save_step", dbs[HybridDb].st, TRUE, "", "written")
                 ELSE Ret("save_" \o job.kind.cmd, dbs[HybridDb].st, FALSE, "Io", "")
       /\ UNCHANGED <<dbs, clock, backups, archives, sidecars, exports, faults, hist>>

SaveRecords ==
    /\ job.pc = "written"
    /\ dbs' = [dbs EXCEPT ![HybridDb] =
                  SaveUpdateRow(job.kind, dbs[HybridDb], job.id, job.path, clock,
                                job.up.mime, job.up.data)]
    /\ job' = [job EXCEPT !.pc = "recorded"]
    /\ ret' = Ret("save_" \o job.kind.cmd, dbs[HybridDb].st, TRUE, "", job.path)
    /\ UNCHANGED <<media, clock, backups, archives, sidecars, exports, faults, hist>>

SweepCollects ==
    \E kind \in Kinds :
        LET c == CollectValidPaths(kind, dbs[HybridDb])
        IN /\ SweepOf(job).pc \in {"idle", "swept"}
           /\ dbs' = [dbs EXCEPT ![HybridDb] = c.db]
           /\ job' = WithSweep(job, IF c.ok
                                    THEN [pc |-> "listed", kind |-> kind,
                                          valid |-> c.valid]
                                    ELSE NoSweep)
           /\ ret' = IF c.ok
                     THEN Ret("cleanup_step", dbs[HybridDb].st, TRUE, "", "listed")
                     ELSE Ret(kind.cleanup, dbs[HybridDb].st, FALSE, c.err, 0)
           /\ hist' = Healed(kind)
           /\ UNCHANGED <<media, clock, backups, archives, sidecars, exports, faults>>

SweepRemoves ==
    \E listing \in Listings(AvatarsDirFiles(media)) :
        LET w == CleanupOrphanedFilesIn(media, listing,
                                        Collected(job, dbs[HybridDb]), {})
        IN /\ SweepOf(job).pc = "listed"
           /\ media' = w.media
           /\ job' = WithSweep(job, [pc |-> "swept", kind |-> SweepOf(job).kind,
                                     removed |-> DOMAIN media \ DOMAIN w.media])
           /\ ret' = Ret(SweepOf(job).kind.cleanup, dbs[HybridDb].st, w.ok,
                         IF w.ok THEN "" ELSE "Io", w.val)
           /\ UNCHANGED <<dbs, clock, backups, archives, sidecars, exports, faults,
                          hist>>

NextSweep ==
    \/ Tick
    \/ SaveStarts
    \/ SaveDeletesOld
    \/ SaveWrites
    \/ SaveRecords
    \/ SweepCollects
    \/ SweepRemoves

SpecSweep == InitAvatar /\ [][NextSweep]_vars

\* C28 as stated: whatever the interleaving of a save with a cleanup of the
\* same kind, once both have finished the file the save wrote and recorded
\* in the row is still on disk: the sweep has not removed it.
C28_SweepSparesSavedFile ==
    (/\ job.pc = "recorded"
     /\ SweepOf(job).pc = "swept"
     /\ SweepOf(job).kind = job.kind)
        => /\ FileExists(media, job.path)
           /\ DanglingRows(job.kind, dbs[HybridDb], media) = {}

-----------------------------------------------------------------------------
(* Archive backup and restore (hybrid_backup.rs).  An archive holds the    *)
(* database file entry (if the file existed), one entry media/<path> per   *)
(* media file, and the manifest.                                           *)

ArchiveName(now) == "hybrid_backup_" \o ToString(now) \o ".zip"
SidecarOf(path) == path \o ".backup"

RECURSIVE SumLen(_, _)
SumLen(m, S) ==
    IF S = {} THEN 0
    ELSE LET p == CHOOSE x \in S : TRUE
         IN Len(m[p].data) + SumLen(m, S \ {p})

\* the length of the database file, counted in stored rows and tables
DbSize(db) ==
    IF db.st # "PresentValid" THEN 0
    ELSE Cardinality(DOMAIN db.tabs)
         + Cardinality(UNION {{<<t, r>> : r \in RowsOf(db.tabs, t)} : t \in DOMAIN db.tabs})

\* the fields serde requires of manifest.json
ManifestFields ==
    {"version", "timestamp", "database_size", "media_size", "total_files",
     "backup_type", "checksum"}

\* read_backup_manifest: the manifest entry parsed into a BackupManifest
ReadBackupManifest(a) == [ok |-> ManifestFields \subseteq DOMAIN a.manifest]

\* the entries of an archive beside the ones create_hybrid_backup writes, in
\* the order of the archive, each [name, db, data]; they come first
OtherEntries(a) == IF "others" \in DOMAIN a THEN a.others ELSE <<>>

MediaDirOf(path) ==
    IF StartsWith(path, "high_ranks/") THEN "high_ranks" ELSE "avatars"

\* temp_dir.join(name) for the staging directory backups/temp_import of the
\* application directory: the file the entry is written to
JoinTemp(name) ==
    IF name = "../../database.db" THEN [store |-> "db", path |-> HybridDb]
    ELSE IF StartsWith(name, "../../media/")
    THEN [store |-> "media", path |-> SubSeq(name, Len("../../media/") + 1, Len(name))]
    ELSE [store |-> "staged", path |-> name]

\* the extraction loop over the entries from the k-th on: [ok, db, media];
\* the entry numbered failAt cannot be extracted (0: every entry can)
RECURSIVE ExtractEntries(_, _, _, _, _)
ExtractEntries(entries, k, failAt, db, m) ==
    IF k = failAt THEN [ok |-> FALSE, db |-> db, media |-> m]
    ELSE IF k > Len(entries) THEN [ok |-> TRUE, db |-> db, media |-> m]
    ELSE LET t == JoinTemp(entries[k].name)
         IN ExtractEntries(entries, k + 1, failAt,
                IF t.store = "db" THEN entries[k].db ELSE db,
                IF t.store = "media"
                THEN WithFile(m, t.path, MediaDirOf(t.path), entries[k].data)
                ELSE m)

\* import_backup that never touches the media tree
ImportBackupKeepsMedia(name, archs, db, m, failAt, sidecarOk) ==
    IF name \notin DOMAIN archs \/ ~archs[name].hasDb
    THEN [ok |-> FALSE, db |-> db, media |-> m, saved |-> FALSE, side |-> db,
          err |-> "NotFound", val |-> 0]
    ELSE [ok |-> TRUE, db |-> archs[name].db, media |-> m, saved |-> db.st # "Absent",
          side |-> db, err |-> "", val |-> archs[name].manifest.total_files - 1]

\* create_hybrid_backup whose manifest counts the media files only
CreateHybridBackupMediaOnly(db, m, now) ==
    [hasDb |-> db.st # "Absent",
     db |-> db,
     media |-> m,
     manifest |-> [version |-> "1.0",
                   timestamp |-> now,
                   database_size |-> DbSize(db),
                   media_size |-> SumLen(m, DOMAIN m),
                   total_files |-> Cardinality(DOMAIN m),
                   backup_type |-> "hybrid",
                   checksum |-> ""]]

\* create_hybrid_backup: the archive written for the stores as they are
CreateHybridBackup(db, m, now) ==
    LET hasDb == db.st # "Absent"
    IN [hasDb |-> hasDb,
        db |-> db,
        media |-> m,
        manifest |-> [version |-> "1.0",
                      timestamp |-> now,
                      database_size |-> IF hasDb THEN DbSize(db) ELSE 0,
                      media_size |-> SumLen(m, DOMAIN m),
                      total_files |-> Cardinality(DOMAIN m) + (IF hasDb THEN 1 ELSE 0),
                      backup_type |-> "hybrid",
                      checksum |-> ""]]

\* import_backup: [ok, db, media, saved, side, err, val]; saved is whether
\* the live database file was copied to its .backup sidecar and side is the
\* content copied; failAt is the entry that cannot be extracted and sidecarOk
\* whether the copy to the sidecar succeeds
ImportBackup(name, archs, db, m, failAt, sidecarOk) ==
    IF name \notin DOMAIN archs
    THEN [ok |-> FALSE, db |-> db, media |-> m, saved |-> FALSE, side |-> db,
          err |-> "NotFound", val |-> 0]
    ELSE LET a == archs[name]
             x == ExtractEntries(OtherEntries(a), 1, failAt, db, m)
             stop(err) == [ok |-> FALSE, db |-> x.db, media |-> x.media,
                           saved |-> FALSE, side |-> db, err |-> err, val |-> 0]
         IN IF ~ReadBackupManifest(a).ok
            THEN [ok |-> FALSE, db |-> db, media |-> m, saved |-> FALSE, side |-> db,
                  err |-> "Manifest", val |-> 0]
            ELSE IF ~x.ok THEN stop("Extract")
            ELSE IF ~a.hasDb THEN stop("NoDatabase")
            ELSE IF x.db.st # "Absent" /\ ~sidecarOk THEN stop("Sidecar")
            ELSE [ok |-> TRUE,
                  db |-> a.db,
                  media |-> IF DOMAIN a.media # {} THEN a.media ELSE x.media,
                  saved |-> x.db.st # "Absent",
                  side |-> x.db,
                  err |-> "",
                  val |-> IF a.manifest.total_files > 0
                          THEN a.manifest.total_files - 1 ELSE 0]

DoCreateHybridBackup ==
    LET name == ArchiveName(clock)
        a == CreateHybridBackup(dbs[HybridDb], media, clock)
    IN /\ name \in DOMAIN archives \/ Cardinality(DOMAIN archives) < MaxArchives
       /\ archives' = [n \in DOMAIN archives \cup {name} |->
                          IF n = name THEN a ELSE archives[n]]
       /\ ret' = Ret("create_hybrid_backup", dbs[HybridDb].st, TRUE, "", name)
       /\ UNCHANGED <<dbs, media, clock, backups, sidecars, exports, job, faults, hist>>

\* the archive names tried: every archive on disk and one that is not
ImportNames == DOMAIN archives \cup {"hybrid_backup_none.zip"}

\* the entries whose extraction may fail: none, one of the entries that come
\* first, or one of the entries create_hybrid_backup writes
FailPoints(name) ==
    IF name \in DOMAIN archives THEN 0..(Len(OtherEntries(archives[name])) + 1)
    ELSE {0}

DoImportBackup ==
    \E name \in ImportNames, sidecarOk \in BOOLEAN :
      \E failAt \in FailPoints(name) :
        LET r == ImportBackup(name, archives, dbs[HybridDb], media, failAt, sidecarOk)
        IN /\ failAt = 0 \/ sidecarOk
           /\ dbs' = [dbs EXCEPT ![HybridDb] = r.db]
           /\ media' = r.media
           /\ sidecars' = IF r.saved
                          THEN [q \in DOMAIN sidecars \cup {SidecarOf(HybridDb)} |->
                                   IF q = SidecarOf(HybridDb) THEN r.side
                                   ELSE sidecars[q]]
                          ELSE sidecars
           /\ ret' = Ret("import_backup", dbs[HybridDb].st, r.ok, r.err,
                         [archive |-> name, media_files |-> r.val])
           /\ UNCHANGED <<clock, backups, archives, exports, job, faults, hist>>

-----------------------------------------------------------------------------
(* SpecArchive: archive backup and import around avatar changes of users *)

NextArchive ==
    \/ Tick
    \/ SaveAvatarAs(UserKind)
    \/ DeleteAvatarAs(UserKind)
    \/ DoCreateHybridBackup
    \/ DoImportBackup

SpecArchive == InitAvatar /\ [][NextArchive]_vars

\* C4 as stated: a successful importBackup leaves the live database file
\* with the archived content and the live media tree holding exactly the
\* archived files, also when the archived media tree was empty.
C4_ImportReplacesBothStores ==
    [][(ret'.op = "import_backup" /\ ret'.ok)
          => /\ dbs'[HybridDb] = archives[ret'.val.archive].db
             /\ media' = archives[ret'.val.archive].media]_vars

\* C4 amended: a successful importBackup leaves the live database file with
\* the archived content; the live media tree holds exactly the archived
\* files when at least one media file was archived, and is left as it was
\* when the archived media tree was empty.
C4_ImportReplacesMediaUnlessArchivedEmpty ==
    [][(ret'.op = "import_backup" /\ ret'.ok)
          => LET a == archives[ret'.val.archive]
             IN /\ dbs'[HybridDb] = a.db
                /\ DOMAIN a.media # {} => media' = a.media
                /\ DOMAIN a.media = {} => media' = media]_vars

C4_Witness ==
    /\ ret.op = "import_backup"
    /\ ret.ok
    /\ DOMAIN archives[ret.val.archive].media = {}
    /\ DOMAIN media # {}
    /\ dbs[HybridDb] = archives[ret.val.archive].db

-----------------------------------------------------------------------------
(* Logical backup (database_backup.rs).  It works on the database file of  *)
(* the pqs-rtn-tauri directory.  A document holds, per table, the schema   *)
(* string and the rows as arrays of JSON values.                           *)

JStr(s) == [j |-> "str", s |-> s]
JNum(n) == [j |-> "num", n |-> n]
JNull == [j |-> "null"]

B64 ==
    <<"A", "B", "C", "D", "E", "F", "G", "H", "I", "J", "K", "L", "M", "N", "O", "P",
      "Q", "R", "S", "T", "U", "V", "W", "X", "Y", "Z", "a", "b", "c", "d", "e", "f",
      "g", "h", "i", "j", "k", "l", "m", "n", "o", "p", "q", "r", "s", "t", "u", "v",
      "w", "x", "y", "z", "0", "1", "2", "3", "4", "5", "6", "7", "8", "9", "+", "/">>

B64Char(n) == B64[(n % 64) + 1]

\* general_purpose::STANDARD.encode: three bytes to four characters, padded
RECURSIVE Base64Encode(_)
Base64Encode(b) ==
    IF Len(b) = 0 THEN ""
    ELSE IF Len(b) = 1
    THEN B64Char(b[1] \div 4) \o B64Char((b[1] % 4) * 16) \o "=="
    ELSE IF Len(b) = 2
    THEN B64Char(b[1] \div 4) \o B64Char((b[1] % 4) * 16 + b[2] \div 16)
         \o B64Char((b[2] % 16) * 4) \o "="
    ELSE B64Char(b[1] \div 4) \o B64Char((b[1] % 4) * 16 + b[2] \div 16)
         \o B64Char((b[2] % 16) * 4 + b[3] \div 64) \o B64Char(b[3] % 64)
         \o Base64Encode(SubSeq(b, 4, Len(b)))

\* the binary contents stored: two short ones and one whose encoding is
\* longer than the decoding threshold
LongBlob == [k \in 1..LongBlobLen |-> (k * 37) % 256]
BlobsTried == {<<255>>, <<1, 2, 250>>, LongBlob}

\* general_purpose::STANDARD.decode, as the inverse of the encoding over
\* the contents stored: [ok, b]
Base64Decode(s) ==
    IF \E b \in BlobsTried : Base64Encode(b) = s
    THEN [ok |-> TRUE, b |-> CHOOSE b \in BlobsTried : Base64Encode(b) = s]
    ELSE [ok |-> FALSE, b |-> <<>>]

\* the length above which restore_table tries to decode a string
DecodeThreshold == 100

\* backup_table, one column: the first type that row.get accepts
BackupValue(v) ==
    CASE v.t = "text" -> JStr(v.s)
      [] v.t = "int" -> JNum(v.i)
      [] v.t = "blob" -> JStr(Base64Encode(v.b))
      [] OTHER -> JNull

\* restore_table, one parameter
RestoreValue(tname, jv) ==
    CASE jv.j = "str" ->
            IF tname = "avatars" /\ Len(jv.s) > DecodeThreshold
               /\ Base64Decode(jv.s).ok
            THEN BlobV(Base64Decode(jv.s).b)
            ELSE TextV(jv.s)
      [] jv.j = "num" -> IntV(jv.n)
      [] OTHER -> NullV

\* the rows of a table in rowid order
RECURSIVE RowSeq(_)
RowSeq(rows) ==
    IF rows = {} THEN <<>>
    ELSE LET first == CHOOSE r \in rows : \A q \in rows : r["id"].i <= q["id"].i
         IN <<first>> \o RowSeq(rows \ {first})

RECURSIVE SetToSeq(_)
SetToSeq(S) ==
    IF S = {} THEN <<>>
    ELSE LET x == CHOOSE y \in S : TRUE IN <<x>> \o SetToSeq(S \ {x})

\* sqlite_master.sql of a table: the CREATE TABLE text, which never keeps
\* IF NOT EXISTS
SchemaOf(tabs, t) == [name |-> t, cols |-> tabs[t].cols, if_not_exists |-> FALSE]

\* backup_table
BackupTable(tabs, t) ==
    LET rows == RowSeq(RowsOf(tabs, t))
        cols == tabs[t].cols
    IN [name |-> t,
        schema |-> SchemaOf(tabs, t),
        data |-> [k \in 1..Len(rows) |->
                     [c \in 1..Len(cols) |-> BackupValue(rows[k][cols[c]])]],
        row_count |-> Len(rows)]

\* get_table_list: name NOT LIKE 'sqlite_%'
TableList(tabs) == DOMAIN tabs \ {"sqlite_sequence"}

BackupName(now) == "database_backup_" \o ToString(now) \o ".json"

\* create_backup: [ok, db, doc, err]
CreateBackup(db, now) ==
    LET c == OpenCreating(db)
        names == SetToSeq(TableList(c.tabs))
        tables == [k \in 1..Len(names) |-> BackupTable(c.tabs, names[k])]
    IN IF \E t \in {"users", "avatars", "high_ranking_officers"} : ~HasTable(c.tabs, t)
       THEN [ok |-> FALSE, db |-> c, doc |-> [tables |-> <<>>], err |-> "Sql"]
       ELSE [ok |-> TRUE, db |-> c, err |-> "",
             doc |-> [timestamp |-> now,
                      version |-> "1.0",
                      tables |-> tables,
                      metadata |->
                          [total_tables |-> Len(tables),
                           total_rows |-> Cardinality(
                               UNION {{<<t, r>> : r \in RowsOf(c.tabs, t)} :
                                         t \in TableList(c.tabs)}),
                           user_count |-> Cardinality(RowsOf(c.tabs, "users")),
                           avatar_count |-> Cardinality(RowsOf(c.tabs, "avatars")),
                           high_ranking_count |->
                               Cardinality(RowsOf(c.tabs, "high_ranking_officers"))]]]

\* the tables restore_backup clears, child tables first
ClearedTables == <<"high_ranking_avatars", "high_ranking_officers", "avatars", "users">>

\* DELETE FROM each of the cleared tables: [ok, tabs, err]
RECURSIVE ClearFrom(_, _)
ClearFrom(tabs, k) ==
    IF k > Len(ClearedTables) THEN [ok |-> TRUE, tabs |-> tabs, err |-> ""]
    ELSE IF ~HasTable(tabs, ClearedTables[k])
    THEN [ok |-> FALSE, tabs |-> tabs, err |-> "Clear"]
    ELSE ClearFrom([tabs EXCEPT ![ClearedTables[k]].rows = {}], k + 1)

\* INSERT INTO t VALUES (?, ..., ?): [ok, tabs, err]
InsertValues(tabs, t, vals) ==
    LET cols == tabs[t].cols
    IN IF ~HasTable(tabs, t) \/ Len(vals) # Len(tabs[t].cols)
       THEN [ok |-> FALSE, tabs |-> tabs, err |-> "Insert"]
       ELSE
       LET given == [c \in ColSet(tabs, t) |->
                        vals[CHOOSE k \in 1..Len(cols) : cols[k] = c]]
           auto == SetMax({SeqOf(tabs, t)} \cup {r["id"].i : r \in RowsOf(tabs, t)}) + 1
           row == IF IsNull(given["id"]) THEN [given EXCEPT !["id"] = IntV(auto)]
                  ELSE given
       IN IF \/ row["id"].t # "int"
             \/ \E r \in RowsOf(tabs, t) : r["id"] = row["id"]
             \/ /\ t = "users"
                /\ \E r \in RowsOf(tabs, t) : r["username"] = row["username"]
          THEN [ok |-> FALSE, tabs |-> tabs, err |-> "Insert"]
          ELSE [ok |-> TRUE, err |-> "",
                tabs |-> WithSeq([tabs EXCEPT ![t].rows = @ \cup {row}], t,
                                 SetMax({SeqOf(tabs, t), row["id"].i}))]

\* the insert loop of restore_table from row k on: [ok, tabs, err]
RECURSIVE RestoreRows(_, _, _)
RestoreRows(tabs, tb, k) ==
    IF k > Len(tb.data) THEN [ok |-> TRUE, tabs |-> tabs, err |-> ""]
    ELSE IF Len(tb.data[k]) = 0 THEN RestoreRows(tabs, tb, k + 1)
    ELSE LET vals == [c \in 1..Len(tb.data[k]) |-> RestoreValue(tb.name, tb.data[k][c])]
             ins == InsertValues(tabs, tb.name, vals)
         IN IF ins.ok THEN RestoreRows(ins.tabs, tb, k + 1) ELSE ins

\* restore_table: replay the schema string, then insert the rows
RestoreTable(tabs, tb) ==
    IF HasTable(tabs, tb.schema.name) /\ ~tb.schema.if_not_exists
    THEN [ok |-> FALSE, tabs |-> tabs, err |-> "Schema"]
    ELSE RestoreRows(CreateTableIfNotExists(tabs, tb.schema.name, tb.schema.cols), tb, 1)

RECURSIVE RestoreTables(_, _, _)
RestoreTables(tabs, tables, k) ==
    IF k > Len(tables) THEN [ok |-> TRUE, tabs |-> tabs, err |-> ""]
    ELSE LET r == RestoreTable(tabs, tables[k])
         IN IF r.ok THEN RestoreTables(r.tabs, tables, k + 1) ELSE r

\* the statements restore_backup runs inside its transaction: [ok, tabs, err]
RestoreInTransaction(tabs, doc) ==
    LET cleared == ClearFrom(tabs, 1)
    IN IF cleared.ok THEN RestoreTables(cleared.tabs, doc.tables, 1) ELSE cleared

\* restore_backup whose failing transaction is not rolled back
RestoreBackupKeepsPartial(docs, name, db) ==
    IF name \notin DOMAIN docs
    THEN [ok |-> FALSE, db |-> db, err |-> "NotFound", val |-> 0]
    ELSE LET c == OpenCreating(db)
             r == RestoreInTransaction(c.tabs, docs[name])
         IN [ok |-> r.ok,
             db |-> IF r.tabs = c.tabs THEN c ELSE Written(r.tabs),
             err |-> r.err,
             val |-> IF r.ok THEN Cardinality(RowsOf(r.tabs, "users")) ELSE 0]

\* restore_backup of a JSON document: [ok, db, err, val]; dropping the
\* transaction on an error rolls every statement back
RestoreBackup(docs, name, db) ==
    IF name \notin DOMAIN docs
    THEN [ok |-> FALSE, db |-> db, err |-> "NotFound", val |-> 0]
    ELSE LET c == OpenCreating(db)
             r == RestoreInTransaction(c.tabs, docs[name])
         IN IF r.ok
            THEN [ok |-> TRUE, db |-> Written(r.tabs), err |-> "",
                  val |-> Cardinality(RowsOf(r.tabs, "users"))]
            ELSE [ok |-> FALSE, db |-> c, err |-> r.err, val |-> 0]

-----------------------------------------------------------------------------
(* SpecLogical: logical backup and restore.  The database of the           *)
(* pqs-rtn-tauri directory is absent or holds the four tables that         *)
(* restore_backup clears; the backup directory holds documents that were   *)
(* put there by hand beside the ones create_backup writes.                 *)

AvatarsCols == <<"id", "user_id", "avatar_data", "mime_type">>
HighRankAvatarsCols == <<"id", "officer_id", "avatar_data", "mime_type">>

BlobRow(owner, id, ref, data) ==
    [c \in {"id", owner, "avatar_data", "mime_type"} |->
        IF c = "id" THEN IntV(id)
        ELSE IF c = owner THEN IntV(ref)
        ELSE IF c = "avatar_data" THEN BlobV(data)
        ELSE TextV("image/png")]

LegacyDb ==
    LET t0 == InitializedDb.tabs
        t1 == CreateTableIfNotExists(t0, "avatars", AvatarsCols)
        t2 == CreateTableIfNotExists(t1, "high_ranking_avatars", HighRankAvatarsCols)
        t3 == [t2 EXCEPT !["avatars"].rows =
                            {BlobRow("user_id", 1, 1, <<1, 2, 250>>),
                             BlobRow("user_id", 2, 1, LongBlob)},
                         !["high_ranking_avatars"].rows =
                            {BlobRow("officer_id", 1, 1, <<255>>)}]
    IN Written(WithSeq(WithSeq(t3, "avatars", 2), "high_ranking_avatars", 1))

UsersSchemaEdited ==
    [name |-> "users", cols |-> UsersCols, if_not_exists |-> TRUE]

UserValues(id, name) ==
    <<JNum(id), JStr(name), JStr("visitor"), JNull, JNull, JNull, JNull>>

\* documents written by hand: one without tables, one whose schema string
\* was edited to CREATE TABLE IF NOT EXISTS, one whose second row is short
ForeignDocs ==
    [n \in {"cleared.json", "edited.json", "broken.json"} |->
        IF n = "cleared.json" THEN [tables |-> <<>>]
        ELSE IF n = "edited.json"
        THEN [tables |-> <<[name |-> "users", schema |-> UsersSchemaEdited,
                            data |-> <<UserValues(7, "u7")>>, row_count |-> 1]>>]
        ELSE [tables |-> <<[name |-> "users", schema |-> UsersSchemaEdited,
                            data |-> <<UserValues(7, "u7"), <<JNum(8)>>>>,
                            row_count |-> 2]>>]]

InitLogical ==
    /\ dbs \in {[p \in DbPaths |-> IF p = HybridDb THEN InitializedDb ELSE d] :
                   d \in {AbsentDb, LegacyDb}}
    /\ backups = ForeignDocs
    /\ media = NoFiles
    /\ clock = 0
    /\ archives = NoFiles
    /\ sidecars = NoFiles
    /\ exports = NoFiles
    /\ job = Idle
    /\ faults = 0
    /\ hist = {}
    /\ ret = Ret("start", "Absent", TRUE, "", 0)

\* the tables of the database a backup document was taken from
Snapshots == {h \in hist : "snap" \in DOMAIN h}

DoCreateBackup ==
    LET r == CreateBackup(dbs[TauriDb], clock)
        name == BackupName(clock)
    IN /\ r.ok => \/ name \in DOMAIN backups
                  \/ Cardinality(DOMAIN backups)
                        < Cardinality(DOMAIN ForeignDocs) + MaxBackups
       /\ dbs' = [dbs EXCEPT ![TauriDb] = r.db]
       /\ backups' = IF r.ok
                     THEN [n \in DOMAIN backups \cup {name} |->
                              IF n = name THEN r.doc ELSE backups[n]]
                     ELSE backups
       /\ hist' = IF r.ok
                  THEN {h \in hist : h \notin Snapshots \/ h.snap # name}
                       \cup {[snap |-> name, tabs |-> r.db.tabs]}
                  ELSE hist
       /\ ret' = Ret("create_database_backup", dbs[TauriDb].st, r.ok, r.err, name)
       /\ UNCHANGED <<media, clock, archives, sidecars, exports, job, faults>>

\* the document names tried: every document on disk and one that is not
RestoreNames == DOMAIN backups \cup {"database_backup_none.json"}

DoRestoreBackup ==
    \E name \in RestoreNames :
        LET r == RestoreBackup(backups, name, dbs[TauriDb])
        IN /\ dbs' = [dbs EXCEPT ![TauriDb] = r.db]
           /\ ret' = Ret("restore_database_backup", dbs[TauriDb].st, r.ok, r.err,
                         [file |-> name, users |-> r.val])
           /\ UNCHANGED <<media, clock, backups, archives, sidecars, exports, job,
                          faults, hist>>

NextLogical ==
    \/ Tick
    \/ DoCreateBackup
    \/ DoRestoreBackup

SpecLogical == InitLogical /\ [][NextLogical]_vars

AllRowsGone(db) == \A t \in TableList(db.tabs) : RowsOf(db.tabs, t) = {}

\* C5 as stated: restoring a document that createBackup produced into a
\* store whose tables were emptied succeeds and gives every table the rows
\* it had when the backup was taken, binary columns included.
C5_BackupRestoreRoundTrip ==
    [][\A h \in Snapshots :
          (/\ ret'.op = "restore_database_backup"
           /\ ret'.val.file = h.snap
           /\ AllRowsGone(dbs[TauriDb]))
             => /\ ret'.ok
                /\ \A t \in TableList(h.tabs) :
                      /\ HasTable(dbs'[TauriDb].tabs, t)
                      /\ RowsOf(dbs'[TauriDb].tabs, t) = RowsOf(h.tabs, t)]_vars

\* C6: a restoreBackup that fails leaves every table with exactly the rows
\* it held before the call; rows change only when the restore commits.
C6_FailedRestoreChangesNoTable ==
    [][(ret'.op = "restore_database_backup" /\ ~ret'.ok)
          => dbs'[TauriDb].tabs = dbs[TauriDb].tabs]_vars

C6_Witness ==
    /\ ret.op = "restore_database_backup"
    /\ ~ret.ok
    /\ ret.err = "Insert"
    /\ ret.val.file = "broken.json"
    /\ RowsOf(dbs[TauriDb].tabs, "users") # {}
    /\ RowsOf(dbs[TauriDb].tabs, "avatars") # {}

-----------------------------------------------------------------------------
(* Textual export and import (database_export.rs), on the live database *)

Formats == {"json", "csv", "sql"}
ExportedTables == <<"users", "high_ranking_officers">>

ExportName(now, ext) == "database_export_" \o ToString(now) \o "." \o ext

\* export_table, one row: columns are read as String until the first one
\* that is not text
RECURSIVE LeadingText(_, _, _)
LeadingText(cols, row, k) ==
    IF k > Len(cols) \/ row[cols[k]].t # "text" THEN <<>>
    ELSE <<row[cols[k]].s>> \o LeadingText(cols, row, k + 1)

\* export_table
ExportTable(tabs, t) ==
    LET rows == RowSeq(RowsOf(tabs, t))
    IN [name |-> t,
        schema |-> SchemaOf(tabs, t),
        data |-> [k \in 1..Len(rows) |-> LeadingText(tabs[t].cols, rows[k], 1)],
        row_count |-> Len(rows)]

\* export_database: [ok, db, doc, err]
ExportDatabase(db, format, now) ==
    LET c == OpenCreating(db)
    IN IF \E k \in DOMAIN ExportedTables : ~HasTable(c.tabs, ExportedTables[k])
       THEN [ok |-> FALSE, db |-> c, doc |-> [format |-> format, tables |-> <<>>],
             err |-> "Sql"]
       ELSE [ok |-> TRUE, db |-> c, err |-> "",
             doc |-> [format |-> format,
                      timestamp |-> now,
                      tables |-> [k \in DOMAIN ExportedTables |->
                                     ExportTable(c.tabs, ExportedTables[k])]]]

\* the column names an exported row carries: column_0, column_1, ...
ExportedColumns(n) == {"column_" \o ToString(k - 1) : k \in 1..n}

\* INSERT INTO t (column_0, ...) VALUES (...): [ok, tabs]
InsertExported(tabs, t, cells) ==
    IF \/ ~HasTable(tabs, t)
       \/ Len(cells) = 0
       \/ ~(ExportedColumns(Len(cells)) \subseteq ColSet(tabs, t))
    THEN [ok |-> FALSE, tabs |-> tabs]
    ELSE [ok |-> TRUE,
          tabs |-> InsertAuto(tabs, t,
                      [c \in ColSet(tabs, t) \ {"id"} |->
                          IF c \in ExportedColumns(Len(cells))
                          THEN TextV(cells[CHOOSE k \in 1..Len(cells) :
                                              c = "column_" \o ToString(k - 1)])
                          ELSE NullV])]

\* a run of INSERT statements, stopping at the first that fails; lines are
\* [table, cells]
RECURSIVE InsertLines(_, _, _)
InsertLines(tabs, lines, k) ==
    IF k > Len(lines) THEN [ok |-> TRUE, tabs |-> tabs]
    ELSE LET r == InsertExported(tabs, lines[k].table, lines[k].cells)
         IN IF r.ok THEN InsertLines(r.tabs, lines, k + 1) ELSE r

LinesOf(tb) == [k \in 1..Len(tb.data) |-> [table |-> tb.name, cells |-> tb.data[k]]]

\* import_from_json: DELETE FROM the table, then one INSERT per row
RECURSIVE ImportFromJson(_, _, _)
ImportFromJson(tabs, tables, k) ==
    IF k > Len(tables) THEN [ok |-> TRUE, tabs |-> tabs]
    ELSE IF ~HasTable(tabs, tables[k].name) THEN [ok |-> FALSE, tabs |-> tabs]
    ELSE LET r == InsertLines([tabs EXCEPT ![tables[k].name].rows = {}],
                              LinesOf(tables[k]), 1)
         IN IF r.ok THEN ImportFromJson(r.tabs, tables, k + 1) ELSE r

\* the data lines export_to_csv writes per table: the header made of the
\* first row's keys, then the rows; a line without cells is an empty line
RECURSIVE CsvLines(_, _)
CsvLines(tables, k) ==
    IF k > Len(tables) THEN <<>>
    ELSE (IF Len(tables[k].data) = 0 THEN <<>>
          ELSE <<[table |-> tables[k].name, cells |-> tables[k].data[1]]>>
               \o LinesOf(tables[k]))
         \o CsvLines(tables, k + 1)

\* import_from_csv: the first non-empty line gives the columns; every later
\* non-empty line with as many cells is inserted; nothing is deleted
ImportFromCsv(tabs, tables) ==
    LET lines == SelectSeq(CsvLines(tables, 1), LAMBDA l : Len(l.cells) > 0)
    IN IF Len(lines) = 0 THEN [ok |-> TRUE, tabs |-> tabs]
       ELSE InsertLines(tabs,
                        SelectSeq(Tail(lines),
                                  LAMBDA l : Len(l.cells) = Len(lines[1].cells)),
                        1)

\* the statements import_from_sql runs: the text is split at ';' and a
\* chunk that starts with a comment is skipped, which drops the first INSERT
\* after each block of comment lines
RECURSIVE SqlStatements(_, _)
SqlStatements(tables, k) ==
    IF k > Len(tables) THEN <<>>
    ELSE (IF Len(tables[k].data) = 0 THEN <<>> ELSE Tail(LinesOf(tables[k])))
         \o SqlStatements(tables, k + 1)

ImportFromSql(tabs, tables) == InsertLines(tabs, SqlStatements(tables, 1), 1)

\* import_database: [ok, db, err]
ImportDatabase(docs, name, db) ==
    IF name \notin DOMAIN docs THEN [ok |-> FALSE, db |-> db, err |-> "NotFound"]
    ELSE LET c == OpenCreating(db)
             doc == docs[name]
             r == IF doc.format = "json" THEN ImportFromJson(c.tabs, doc.tables, 1)
                  ELSE IF doc.format = "csv" THEN ImportFromCsv(c.tabs, doc.tables)
                  ELSE ImportFromSql(c.tabs, doc.tables)
         IN IF r.ok
            THEN [ok |-> TRUE, db |-> IF r.tabs = c.tabs THEN c ELSE Written(r.tabs),
                  err |-> ""]
            ELSE [ok |-> FALSE, db |-> c, err |-> "Sql"]

DoExportDatabase ==
    \E format \in Formats :
        LET r == ExportDatabase(dbs[HybridDb], format, clock)
            name == ExportName(clock, format)
        IN /\ dbs' = [dbs EXCEPT ![HybridDb] = r.db]
           /\ exports' = IF r.ok
                         THEN [n \in DOMAIN exports \cup {name} |->
                                  IF n = name THEN r.doc ELSE exports[n]]
                         ELSE exports
           /\ ret' = Ret("export_database", dbs[HybridDb].st, r.ok, r.err, name)
           /\ UNCHANGED <<media, clock, backups, archives, sidecars, job, faults, hist>>

\* the file names tried: every export on disk and one that is not
ImportFileNames == DOMAIN exports \cup {"database_export_none.json"}

DoImportDatabase ==
    \E name \in ImportFileNames :
        LET r == ImportDatabase(exports, name, dbs[HybridDb])
        IN /\ dbs' = [dbs EXCEPT ![HybridDb] = r.db]
           /\ ret' = Ret("import_database", dbs[HybridDb].st, r.ok, r.err, name)
           /\ UNCHANGED <<media, clock, backups, archives, sidecars, exports, job,
                          faults, hist>>

-----------------------------------------------------------------------------
(* SpecUninit: every ordinary operation, with no database file on disk and *)
(* the initializer never run.  The export directory holds the exports of   *)
(* an earlier installation; the backup directory the hand-written files.   *)

EarlierExports ==
    [n \in {ExportName(0, f) : f \in Formats} |->
        ExportDatabase(InitializedDb, CHOOSE f \in Formats : n = ExportName(0, f), 0).doc]

InitUninit ==
    /\ dbs = [p \in DbPaths |-> AbsentDb]
    /\ backups = ForeignDocs
    /\ exports = EarlierExports
    /\ media = NoFiles
    /\ clock = 0
    /\ archives = NoFiles
    /\ sidecars = NoFiles
    /\ job = Idle
    /\ faults = 0
    /\ hist = {}
    /\ ret = Ret("start", "Absent", TRUE, "", 0)

NextUninit ==
    \/ Tick
    \/ DoCreateUser
    \/ DoUpdateUser
    \/ DoDeleteUser
    \/ DoGetUsersCount
    \/ DoSaveAvatar
    \/ DoGetAvatarInfo
    \/ DoDeleteAvatar
    \/ DoCleanupOrphanedFiles
    \/ DoCreateBackup
    \/ DoRestoreBackup
    \/ DoExportDatabase
    \/ DoImportDatabase

SpecUninit == InitUninit /\ [][NextUninit]_vars

\* C1 as stated: while the database file is absent, every ordinary
\* operation fails and leaves the file absent.
C1_OrdinaryOperationsNeverCreateFile ==
    [][(LiveSt = "Absent" /\ ret'.op # "tick")
          => (dbs'[HybridDb].st = "Absent" /\ ~ret'.ok)]_vars


-----------------------------------------------------------------------------
(* SpecImport: restores from files that were put in place by hand.  The    *)
(* archives on disk were not all written by create_hybrid_backup of this   *)
(* installation, and the backup directory of the pqs-rtn-tauri database    *)
(* holds raw .db copies beside a JSON document.                            *)

\* the position of the last dot of a path, 0 if it has none
LastDot(path) ==
    LET dots == {i \in 1..Len(path) : SubSeq(path, i, i) = "."}
    IN IF dots = {} THEN 0 ELSE CHOOSE i \in dots : \A j \in dots : j <= i

\* Path::extension
PathExtension(path) ==
    LET d == LastDot(path)
    IN IF d = 0 THEN "" ELSE SubSeq(path, d + 1, Len(path))

\* Path::with_extension
WithExtension(path, ext) ==
    LET d == LastDot(path)
    IN (IF d = 0 THEN path ELSE SubSeq(path, 1, d - 1)) \o "." \o ext

\* restore_universal_sqlite_backup: [ok, db, saved, err, val]; metaOk is
\* whether fs::metadata of the live file succeeds, sidecarOk whether the
\* copy to the sidecar does
RestoreUniversalSqliteBackup(files, name, db, metaOk, sidecarOk) ==
    IF db.st # "Absent" /\ ~metaOk
    THEN [ok |-> FALSE, db |-> db, saved |-> FALSE, err |-> "Metadata", val |-> 0]
    ELSE IF db.st = "PresentValid" /\ ~sidecarOk
    THEN [ok |-> FALSE, db |-> db, saved |-> FALSE, err |-> "Sidecar", val |-> 0]
    ELSE LET c == OpenCreating(files[name])
         IN IF "users" \in DOMAIN c.tabs
            THEN [ok |-> TRUE, db |-> c, saved |-> db.st = "PresentValid", err |-> "",
                  val |-> Cardinality(RowsOf(c.tabs, "users"))]
            ELSE [ok |-> FALSE, db |-> c, saved |-> db.st = "PresentValid",
                  err |-> "Verify", val |-> 0]

\* a database file with no table, and the media tree of another installation
PlantedDb == Written(NoTables)
CopiedMedia == WithFile(NoFiles, "avatars/avatar_2_0.png", "avatars", <<7>>)

\* entries named to land outside the staging directory
EscapingEntries ==
    <<[name |-> "../../database.db", db |-> PlantedDb, data |-> <<>>],
      [name |-> "../../media/avatars/planted.png", db |-> AbsentDb, data |-> <<6>>]>>

\* the archives on disk: one copied from another installation, one whose
\* manifest lacks fields, one taken while no database file existed, and two
\* holding the escaping entries, without and with a database entry
ForeignArchives ==
    [n \in {"copied.zip", "no_manifest.zip", "no_database.zip", "escaping.zip",
            "escaping_full.zip"} |->
        IF n = "copied.zip" THEN CreateHybridBackup(LegacyDb, CopiedMedia, 0)
        ELSE IF n = "no_manifest.zip"
        THEN [hasDb |-> TRUE, db |-> LegacyDb, media |-> NoFiles,
              manifest |-> [version |-> "1.0"]]
        ELSE IF n = "no_database.zip" THEN CreateHybridBackup(AbsentDb, CopiedMedia, 0)
        ELSE IF n = "escaping.zip"
        THEN [hasDb |-> FALSE, db |-> AbsentDb, media |-> NoFiles,
              manifest |-> CreateHybridBackup(AbsentDb, NoFiles, 0).manifest,
              others |-> EscapingEntries]
        ELSE [hasDb |-> TRUE, db |-> LegacyDb, media |-> NoFiles,
              manifest |-> CreateHybridBackup(LegacyDb, NoFiles, 0).manifest,
              others |-> EscapingEntries]]

\* the files of the backup directory: two raw copies, the second of zero
\* length, and a JSON document
RawCopies ==
    [n \in {"database_backup_1.db", "database_backup_2.db", "cleared.json"} |->
        IF n = "database_backup_1.db" THEN InitializedDb
        ELSE IF n = "database_backup_2.db" THEN EmptyDb
        ELSE ForeignDocs["cleared.json"]]

InitImport ==
    /\ dbs \in {[p \in DbPaths |-> IF p = HybridDb THEN InitializedDb ELSE d] :
                   d \in {AbsentDb, EmptyDb, LegacyDb}}
    /\ media = NoFiles
    /\ clock = 0
    /\ backups = RawCopies
    /\ archives = ForeignArchives
    /\ sidecars = NoFiles
    /\ exports = NoFiles
    /\ job = Idle
    /\ faults = 0
    /\ hist = {}
    /\ ret = Ret("start", "Absent", TRUE, "", 0)

\* restore_backup of any file of the backup directory: a file named *.db is
\* copied over the database, any other is read as a JSON document
DoRestoreBackupFile ==
    \E name \in RestoreNames, metaOk \in BOOLEAN, sidecarOk \in BOOLEAN :
        LET r == IF name \in DOMAIN backups /\ PathExtension(name) = "db"
                 THEN RestoreUniversalSqliteBackup(backups, name, dbs[TauriDb],
                                                   metaOk, sidecarOk)
                 ELSE [saved |-> FALSE] @@ RestoreBackup(backups, name, dbs[TauriDb])
            side == WithExtension(TauriDb, "backup")
        IN /\ metaOk \/ sidecarOk
           /\ dbs' = [dbs EXCEPT ![TauriDb] = r.db]
           /\ sidecars' = IF r.saved
                          THEN [q \in DOMAIN sidecars \cup {side} |->
                                   IF q = side THEN dbs[TauriDb] ELSE sidecars[q]]
                          ELSE sidecars
           /\ ret' = Ret("restore_database_backup", dbs[TauriDb].st, r.ok, r.err,
                         [file |-> name, users |-> r.val])
           /\ UNCHANGED <<media, clock, backups, archives, exports, job, faults, hist>>

NextImport ==
    \/ DoImportBackup
    \/ DoRestoreBackupFile

SpecImport == InitImport /\ [][NextImport]_vars

\* C19: an importBackup that fails because the manifest is unreadable or
\* malformed, because an archive entry cannot be extracted, or because the
\* staged database file is missing leaves the live database file and the
\* live media tree exactly as they were before the call.
C19_FailedImportTouchesNothing ==
    [][(/\ ret'.op = "import_backup"
        /\ ~ret'.ok
        /\ ret'.err \in {"Manifest", "Extract", "NoDatabase"})
          => (dbs'[HybridDb] = dbs[HybridDb] /\ media' = media)]_vars

\* C20: in archive importBackup and in the raw .db restore, a non-empty live
\* database file is overwritten only after a sidecar safety copy holding its
\* pre-restore content has been written, and a restore whose safety copy
\* fails leaves the live database file unchanged.
C20_SafetyCopyBeforeOverwrite ==
    [][/\ (ret'.op = "import_backup" /\ dbs[HybridDb].st = "PresentValid")
            => /\ dbs'[HybridDb] # dbs[HybridDb]
                    => /\ SidecarOf(HybridDb) \in DOMAIN sidecars'
                       /\ sidecars'[SidecarOf(HybridDb)] = dbs[HybridDb]
               /\ ret'.err = "Sidecar" => dbs'[HybridDb] = dbs[HybridDb]
       /\ (/\ ret'.op = "restore_database_backup"
           /\ PathExtension(ret'.val.file) = "db"
           /\ dbs[TauriDb].st = "PresentValid")
            => /\ dbs'[TauriDb] # dbs[TauriDb]
                    => /\ WithExtension(TauriDb, "backup") \in DOMAIN sidecars'
                       /\ sidecars'[WithExtension(TauriDb, "backup")] = dbs[TauriDb]
               /\ ret'.err = "Sidecar" => dbs'[TauriDb] = dbs[TauriDb]]_vars

\* C29: the extraction of importBackup writes inside the staging directory
\* only.  Whatever the entry names, a file of the live media tree is
\* created or overwritten by an import only when the import succeeds and
\* the file is one of the archive's media/ entries, and the live database
\* file changes only into the archive's database entry.
C29_ExtractionStaysInStaging ==
    [][ret'.op = "import_backup" =>
          /\ \A p \in DOMAIN media' :
                (p \notin DOMAIN media \/ media'[p] # media[p])
                   => /\ ret'.ok
                      /\ p \in DOMAIN archives[ret'.val.archive].media
                      /\ media'[p] = archives[ret'.val.archive].media[p]
          /\ dbs'[HybridDb] # dbs[HybridDb]
                => /\ ret'.ok
                   /\ dbs'[HybridDb] = archives[ret'.val.archive].db]_vars


-----------------------------------------------------------------------------
(* SpecCreate: create_hybrid_backup on an installation whose database file *)
(* is absent, of zero length or initialized, between avatar saves of users *)

InitCreate ==
    /\ dbs \in {[p \in DbPaths |-> IF p = HybridDb THEN d ELSE AbsentDb] :
                   d \in {AbsentDb, EmptyDb, InitializedDb}}
    /\ InitStores

NextCreate ==
    \/ Tick
    \/ SaveAvatarAs(UserKind)
    \/ DoCreateHybridBackup

SpecCreate == InitCreate /\ [][NextCreate]_vars

\* C21: the archive createHybridBackup writes holds the database file iff it
\* existed and the media files as they were; the manifest's total_files is
\* the number of media files archived plus 1 when the database file existed
\* (so at least 1 then), and database_size and media_size are the sizes of
\* the archived database file and of the archived media files.
C21_ManifestCountsArchivedFiles ==
    [][(ret'.op = "create_hybrid_backup" /\ ret'.ok)
          => LET a == archives'[ret'.val]
                 existed == dbs[HybridDb].st # "Absent"
             IN /\ a.hasDb = existed
                /\ existed => a.db = dbs[HybridDb]
                /\ a.media = media
                /\ a.manifest.total_files
                      = Cardinality(DOMAIN a.media) + (IF existed THEN 1 ELSE 0)
                /\ existed => a.manifest.total_files >= 1
                /\ a.manifest.database_size = (IF existed THEN DbSize(a.db) ELSE 0)
                /\ a.manifest.media_size = SumLen(a.media, DOMAIN a.media)]_vars

\* an archive of an existing database file and at least one media file
C21_Witness ==
    /\ ret.op = "create_hybrid_backup"
    /\ ret.ok
    /\ archives[ret.val].hasDb
    /\ DOMAIN archives[ret.val].media # {}
    /\ archives[ret.val].manifest.total_files
          = Cardinality(DOMAIN archives[ret.val].media) + 1


\* C25: a backup artifact is immutable once created: a successful create
\* writes an artifact that did not exist before and leaves every existing
\* artifact as it was, also when two creates happen within one clock second.
C25_CreateLeavesArtifactsAlone ==
    [][(ret'.op = "create_hybrid_backup" /\ ret'.ok)
          => /\ ret'.val \notin DOMAIN archives
             /\ \A n \in DOMAIN archives : archives'[n] = archives[n]]_vars


-----------------------------------------------------------------------------
(* SpecCover: create_backup on an installation whose live database was     *)
(* initialized and is then changed by avatar saves of users                *)

NextCover ==
    \/ SaveAvatarAs(UserKind)
    \/ DoCreateBackup

SpecCover == InitLogical /\ [][NextCover]_vars

\* C22: on a live database produced by the initializer and then modified by
\* entity operations, createBackup succeeds and its document has one entry
\* per user table of the live database (catalog tables excluded), each with
\* the table's creation schema and a row_count equal to its number of rows.
C22_BackupCoversLiveDatabase ==
    [][(ret'.op = "create_database_backup")
          => /\ ret'.ok
             /\ LET doc == backups'[ret'.val]
                    live == dbs[HybridDb].tabs
                IN /\ {doc.tables[k].name : k \in DOMAIN doc.tables} = TableList(live)
                   /\ Len(doc.tables) = Cardinality(TableList(live))
                   /\ \A k \in DOMAIN doc.tables :
                         /\ doc.tables[k].schema = SchemaOf(live, doc.tables[k].name)
                         /\ doc.tables[k].row_count
                               = Cardinality(RowsOf(live, doc.tables[k].name))]_vars


-----------------------------------------------------------------------------
(* SpecExport: textual export and import on an initialized live database   *)
(* whose users table changes between the two                               *)

NextExport ==
    \/ DoCreateUser
    \/ DoDeleteUser
    \/ DoExportDatabase
    \/ DoImportDatabase

SpecExport == InitAvatar /\ [][NextExport]_vars

\* the tables of an export file on disk
ImportedDoc(name) == exports[name]

C24_ExportedRowsCarryEveryColumn ==
    [][(ret'.op = "export_database" /\ ret'.ok)
          => \A k \in DOMAIN exports'[ret'.val].tables :
                LET tb == exports'[ret'.val].tables[k]
                    live == dbs[HybridDb].tabs
                IN /\ Len(tb.data) = Cardinality(RowsOf(live, tb.name))
                   /\ \A j \in DOMAIN tb.data :
                         Len(tb.data[j]) = Len(live[tb.name].cols)]_vars

=============================================================================
